---- MODULE Spec2Model ----
(***************************************************************************)
(* Rate-balancing engine of ficsit-companion: the FractionalNumber type,   *)
(* the node / pin / link graph with its editing operations, and            *)
(* App::UpdateNodesRate (relevant-set collection, equation building,       *)
(* Gaussian elimination, write-back).                                      *)
(***************************************************************************)
EXTENDS Integers, Sequences, FiniteSets, TLC

(***************************************************************************)
(* FractionalNumber (fractional_number.cpp)                                *)
(***************************************************************************)
Abs(x) == IF x < 0 THEN -x ELSE x

RECURSIVE Gcd(_, _)
Gcd(a, b) == IF b = 0 THEN a ELSE Gcd(b, a % b)

\* FractionalNumber::Simplify: divide both members by the gcd, carrying the
\* sign of the denominator; a zero numerator divides by the denominator.
Simplify(n, d) ==
    LET gcd == IF n = 0 THEN d ELSE Gcd(Abs(n), Abs(d)) * (IF d < 0 THEN -1 ELSE 1)
    IN  [numerator |-> n \div gcd, denominator |-> d \div gcd]

FractionalNumber(n, d) == Simplify(n, d)

Zero == FractionalNumber(0, 1)
One == FractionalNumber(1, 1)

Mul(lhs, rhs) ==
    Simplify(lhs.numerator * rhs.numerator, lhs.denominator * rhs.denominator)

Add(lhs, rhs) ==
    Simplify(lhs.numerator * rhs.denominator + rhs.numerator * lhs.denominator,
             lhs.denominator * rhs.denominator)

Sub(lhs, rhs) ==
    Simplify(lhs.numerator * rhs.denominator - rhs.numerator * lhs.denominator,
             lhs.denominator * rhs.denominator)

Div(lhs, rhs) ==
    FractionalNumber(lhs.numerator * rhs.denominator, lhs.denominator * rhs.numerator)

Lt(a, b) == a.numerator * b.denominator < b.numerator * a.denominator

\* |a| > |b| on the values the pivot search compares (GetValue is the double
\* numerator / denominator; the matrices here hold small exact fractions).
AbsGt(a, b) == Abs(a.numerator) * b.denominator > Abs(b.numerator) * a.denominator

(***************************************************************************)
(* Generic helpers over sequences                                          *)
(***************************************************************************)
RECURSIVE FoldSeq(_, _, _)
FoldSeq(Op(_, _), acc, s) ==
    IF s = <<>> THEN acc ELSE FoldSeq(Op, Op(acc, Head(s)), Tail(s))

SeqToSet(s) == {s[i] : i \in DOMAIN s}

\* A function built at once, whatever the evaluation strategy of TLC.
Eager(f) == f @@ <<>>

RemoveAt(s, i) == Eager([j \in 1..(Len(s) - 1) |-> IF j < i THEN s[j] ELSE s[j + 1]])

(***************************************************************************)
(* FractionalNumber and strings (fractional_number.cpp 19-224).  A string  *)
(* is the sequence of its characters.  A result is [error, value]: error   *)
(* is "" or the message of the exception the constructor throws.           *)
(***************************************************************************)
Digits == <<"0", "1", "2", "3", "4", "5", "6", "7", "8", "9">>

IsDigit(c) == \E i \in DOMAIN Digits : Digits[i] = c
DigitValue(c) == (CHOOSE i \in DOMAIN Digits : Digits[i] = c) - 1
IsSpace(c) == c = " "
IsOperator(c) == c \in {"+", "-", "*", "/"}

precedence == [c \in {"+", "-", "*", "/"} |-> IF c \in {"+", "-"} THEN 1 ELSE 2]

Thrown(message) == [error |-> message, value |-> <<>>]
Value(f) == [error |-> "", value |-> f]

RECURSIVE ToDigits(_)
\* std::to_string of a number that is not negative.
ToDigits(n) ==
    IF n < 10 THEN <<Digits[n + 1]>> ELSE Append(ToDigits(n \div 10), Digits[(n % 10) + 1])

\* std::to_string(long long).
to_string(n) == IF n < 0 THEN <<"-">> \o ToDigits(-n) ELSE ToDigits(n)

\* FractionalNumber::GetStringFraction.
GetStringFraction(f) ==
    IF f.denominator = 1 THEN to_string(f.numerator)
    ELSE to_string(f.numerator) \o <<"/">> \o to_string(f.denominator)

RECURSIVE NumberEnd(_, _)
\* Index after the digits and dots that start at i.
NumberEnd(s, i) ==
    IF i <= Len(s) /\ (IsDigit(s[i]) \/ s[i] = ".") THEN NumberEnd(s, i + 1) ELSE i

RECURSIVE PopHigher(_, _, _)
\* Operators of the stack that go to the output before operator c is pushed.
PopHigher(postfix, operators, c) ==
    IF /\ operators # <<>>
       /\ operators[Len(operators)] # "("
       /\ precedence[operators[Len(operators)]] >= precedence[c]
    THEN PopHigher(Append(postfix, <<operators[Len(operators)]>>),
                   SubSeq(operators, 1, Len(operators) - 1), c)
    ELSE [postfix |-> postfix, operators |-> Append(operators, c)]

RECURSIVE PopToParenthesis(_, _)
\* Operators of the stack that go to the output at a right parenthesis.
PopToParenthesis(postfix, operators) ==
    IF operators # <<>> /\ operators[Len(operators)] # "("
    THEN PopToParenthesis(Append(postfix, <<operators[Len(operators)]>>),
                          SubSeq(operators, 1, Len(operators) - 1))
    ELSE IF operators = <<>>
    THEN [error |-> "Mismatched parentheses", postfix |-> postfix, operators |-> operators]
    ELSE [error |-> "", postfix |-> postfix,
          operators |-> SubSeq(operators, 1, Len(operators) - 1)]

RECURSIVE PopRemaining(_, _)
\* The operators left on the stack at the end of the string.
PopRemaining(postfix, operators) ==
    IF operators = <<>> THEN [error |-> "", postfix |-> postfix]
    ELSE IF operators[Len(operators)] = "("
    THEN [error |-> "Mismatched parentheses", postfix |-> postfix]
    ELSE PopRemaining(Append(postfix, <<operators[Len(operators)]>>),
                      SubSeq(operators, 1, Len(operators) - 1))

RECURSIVE Tokenize(_, _, _, _)
\* The shunting yard loop from character i on (fractional_number.cpp 32-108).
\* A character that is no space, digit, operator or parenthesis is passed
\* over: the chain of tests has no last else.
Tokenize(s, i, postfix, operators) ==
    IF i > Len(s) THEN PopRemaining(postfix, operators)
    ELSE IF IsSpace(s[i]) THEN Tokenize(s, i + 1, postfix, operators)
    ELSE IF IsDigit(s[i])
    THEN Tokenize(s, NumberEnd(s, i),
                  Append(postfix, SubSeq(s, i, NumberEnd(s, i) - 1)), operators)
    ELSE IF IsOperator(s[i])
    THEN Tokenize(s, i + 1, PopHigher(postfix, operators, s[i]).postfix,
                  PopHigher(postfix, operators, s[i]).operators)
    ELSE IF s[i] = "(" THEN Tokenize(s, i + 1, postfix, Append(operators, "("))
    ELSE IF s[i] = ")"
    THEN IF PopToParenthesis(postfix, operators).error # ""
         THEN [error |-> "Mismatched parentheses", postfix |-> postfix]
         ELSE Tokenize(s, i + 1, PopToParenthesis(postfix, operators).postfix,
                       PopToParenthesis(postfix, operators).operators)
    ELSE Tokenize(s, i + 1, postfix, operators)

\* Place of the first "." of a token, 0 when it has none (std::string::find).
DecimalIndex(token) ==
    IF \E i \in DOMAIN token : token[i] = "."
    THEN CHOOSE i \in DOMAIN token : token[i] = "." /\ \A j \in 1..(i - 1) : token[j] # "."
    ELSE 0

RECURSIVE stoll_digits(_, _, _)
\* The digits std::stoll reads from place i on.
stoll_digits(chars, i, acc) ==
    IF i <= Len(chars) /\ IsDigit(chars[i])
    THEN stoll_digits(chars, i + 1, acc * 10 + DigitValue(chars[i]))
    ELSE acc

\* std::stoll: reads the digits the string starts with and throws when it
\* starts with none.
stoll(chars) ==
    IF chars = <<>> \/ ~IsDigit(chars[1]) THEN Thrown("stoll")
    ELSE Value(stoll_digits(chars, 1, 0))

RECURSIVE TimesTen(_, _)
TimesTen(n, times) == IF times = 0 THEN n ELSE TimesTen(n * 10, times - 1)

\* A number token as a fraction (fractional_number.cpp 118-145).
TokenValue(token) ==
    LET decimal_index == DecimalIndex(token)
        whole == IF decimal_index = 1 THEN Value(0)
                 ELSE stoll(SubSeq(token, 1, decimal_index - 1))
        decimal == stoll(SubSeq(token, decimal_index + 1, Len(token)))
        places == Len(token) - decimal_index
    IN  IF decimal_index = 0
        THEN IF stoll(token).error # "" THEN Thrown("stoll")
             ELSE Value(FractionalNumber(stoll(token).value, 1))
        ELSE IF whole.error # "" \/ decimal.error # "" THEN Thrown("stoll")
        ELSE Value(FractionalNumber(TimesTen(whole.value, places) + decimal.value,
                                    TimesTen(1, places)))

\* The operator applied with zero as the quotient of a division by zero.
ApplyOperatorZeroQuotient(values, op) ==
    LET b == values[Len(values)]
        a == values[Len(values) - 1]
        rest == SubSeq(values, 1, Len(values) - 2)
    IN  IF Len(values) < 2 THEN [error |-> "Invalid expression", values |-> values]
        ELSE IF op = "+" THEN [error |-> "", values |-> Append(rest, Add(a, b))]
        ELSE IF op = "-" THEN [error |-> "", values |-> Append(rest, Sub(a, b))]
        ELSE IF op = "*" THEN [error |-> "", values |-> Append(rest, Mul(a, b))]
        ELSE IF op = "/"
        THEN IF b.numerator = 0 THEN [error |-> "", values |-> Append(rest, FractionalNumber(0, 1))]
             ELSE [error |-> "", values |-> Append(rest, Div(a, b))]
        ELSE [error |-> "Invalid operator", values |-> values]

\* An operator applied to the two values on top of the stack
\* (fractional_number.cpp 150-179).
ApplyOperator(values, op) ==
    LET b == values[Len(values)]
        a == values[Len(values) - 1]
        rest == SubSeq(values, 1, Len(values) - 2)
    IN  IF Len(values) < 2 THEN [error |-> "Invalid expression", values |-> values]
        ELSE IF op = "+" THEN [error |-> "", values |-> Append(rest, Add(a, b))]
        ELSE IF op = "-" THEN [error |-> "", values |-> Append(rest, Sub(a, b))]
        ELSE IF op = "*" THEN [error |-> "", values |-> Append(rest, Mul(a, b))]
        ELSE IF op = "/"
        THEN IF b.numerator = 0 THEN [error |-> "Division by zero", values |-> values]
             ELSE [error |-> "", values |-> Append(rest, Div(a, b))]
        ELSE [error |-> "Invalid operator", values |-> values]

\* One token of the postfix expression (fractional_number.cpp 113-181).
EvaluateToken(state, token) ==
    IF state.error # "" THEN state
    ELSE IF token # <<>> /\ (IsDigit(token[1]) \/ token[1] = ".")
    THEN IF TokenValue(token).error # ""
         THEN [error |-> TokenValue(token).error, values |-> state.values]
         ELSE [error |-> "", values |-> Append(state.values, TokenValue(token).value)]
    ELSE ApplyOperator(state.values, token[1])

\* The value of the postfix expression (fractional_number.cpp 110-191).
Evaluate(tokens) ==
    LET final == FoldSeq(EvaluateToken, [error |-> "", values |-> <<>>], tokens.postfix)
    IN  IF tokens.error # "" THEN Thrown(tokens.error)
        ELSE IF final.error # "" THEN Thrown(final.error)
        ELSE IF Len(final.values) # 1 THEN Thrown("Invalid expression")
        ELSE Value(final.values[1])

\* FractionalNumber::FractionalNumber(const std::string&).
FromString(s) == Evaluate(Tokenize(s, 1, <<>>, <<>>))

(***************************************************************************)
(* Graph entities.  An app record holds                                    *)
(*   nodes : node id -> [kind, ins, outs, current_rate, num_somersloop,    *)
(*                       somersloop_mult]                                  *)
(*   pins  : pin id  -> [direction, node, base_rate, current_rate, locked, *)
(*                       link, error]         (link = 0 is nullptr)        *)
(*   links : link id -> [start, end, flow]                                 *)
(*   next_id : the id GetNextId returns next                               *)
(***************************************************************************)
NoLink == 0

Pin(direction, node, base_rate) ==
    [direction |-> direction, node |-> node, base_rate |-> base_rate,
     current_rate |-> FractionalNumber(0, 1), locked |-> FALSE,
     link |-> NoLink, error |-> FALSE]

IsPowered(kind) == kind \in {"Craft", "Group"}
IsOrganizer(kind) == kind \in {"CustomSplitter", "Merger", "GameSplitter"}

KindOf(app, p) == app.nodes[app.pins[p].node].kind

\* The pin at the other end of p's link.
LinkedPin(app, p) ==
    IF app.pins[p].direction = "Input" THEN app.links[app.pins[p].link].start
    ELSE app.links[app.pins[p].link].end

(***************************************************************************)
(* Node construction (node.cpp constructors, App::AddNewNode)              *)
(***************************************************************************)
\* One node and its pins: the node takes the next id, then each input pin,
\* then each output pin.  in_rates / out_rates are the pins' base rates.
NewNode(app, kind, in_rates, out_rates, somersloop_mult) ==
    LET id == app.next_id
        n_in == Len(in_rates)
        n_out == Len(out_rates)
        ins == Eager([i \in 1..n_in |-> id + i])
        outs == Eager([i \in 1..n_out |-> id + n_in + i])
        new_pins == Eager([q \in (id + 1)..(id + n_in + n_out) |->
                        IF q <= id + n_in
                        THEN Pin("Input", id, in_rates[q - id])
                        ELSE Pin("Output", id, out_rates[q - id - n_in])])
    IN  [app EXCEPT
            !.nodes = @ @@ (id :> [kind |-> kind, ins |-> ins, outs |-> outs,
                                   current_rate |-> IF IsPowered(kind) THEN FractionalNumber(1, 1)
                                                    ELSE FractionalNumber(0, 1),
                                   num_somersloop |-> FractionalNumber(0, 1),
                                   somersloop_mult |-> somersloop_mult]),
            !.pins = @ @@ new_pins,
            !.next_id = id + n_in + n_out + 1]

CraftNode(app, recipe) == NewNode(app, "Craft", recipe.ins, recipe.outs, recipe.somersloop_mult)
MergerNode(app) == NewNode(app, "Merger", <<Zero, Zero, Zero>>, <<Zero>>, Zero)
CustomSplitterNode(app) == NewNode(app, "CustomSplitter", <<Zero>>, <<Zero, Zero, Zero>>, Zero)
GameSplitterNode(app) == NewNode(app, "GameSplitter", <<Zero>>, <<Zero, Zero, Zero>>, Zero)
SinkNode(app) == NewNode(app, "Sink", <<Zero>>, <<>>, Zero)

(***************************************************************************)
(* Pin::SetLocked (pin.cpp)                                                *)
(***************************************************************************)
IsSinglePin(app, p) ==
    \/ KindOf(app, p) = "CustomSplitter" /\ app.pins[p].direction = "Input"
    \/ KindOf(app, p) = "Merger" /\ app.pins[p].direction = "Output"

MultiPin(node) == IF node.kind = "CustomSplitter" THEN node.outs ELSE node.ins
SinglePin(node) == IF node.kind = "CustomSplitter" THEN node.ins[1] ELSE node.outs[1]

RECURSIVE SetLocked(_, _, _)

\* SetLockedNode without the unlocking of the multi pins once the single
\* pin is unlocked.
SetLockedNodeSingleOnly(app, p, b) ==
    LET node == app.nodes[app.pins[p].node]
        SetIfDiffers(a, q) == IF a.pins[q].locked # b THEN SetLocked(a, q, b) ELSE a
        multi_pin == MultiPin(node)
        all_unlocked == SelectSeq(multi_pin, LAMBDA q : ~app.pins[q].locked)
        single_pin == SinglePin(node)
    IN  CASE node.kind \in {"Craft", "Group", "GameSplitter"} ->
                FoldSeq(SetIfDiffers, app, node.ins \o node.outs)
          [] node.kind \in {"Merger", "CustomSplitter"} ->
                IF IsSinglePin(app, p)
                THEN IF b /\ Len(all_unlocked) = 1
                     THEN SetLocked(app, all_unlocked[1], b)
                     ELSE app
                ELSE IF Len(all_unlocked) = 0
                     THEN IF ~app.pins[single_pin].locked
                          THEN SetLocked(app, single_pin, TRUE)
                          ELSE app
                     ELSE IF b /\ app.pins[single_pin].locked /\ Len(all_unlocked) = 1
                     THEN SetLocked(app, all_unlocked[1], b)
                     ELSE IF ~b /\ app.pins[single_pin].locked /\ Len(all_unlocked) = 1
                     THEN SetLocked(app, single_pin, b)
                     ELSE app
          [] OTHER -> app

\* SetLockedNode without the lock of the single pin once every multi pin is
\* locked.
SetLockedNodeMultiOnly(app, p, b) ==
    LET node == app.nodes[app.pins[p].node]
        SetIfDiffers(a, q) == IF a.pins[q].locked # b THEN SetLocked(a, q, b) ELSE a
        SetEach(a, q) == SetLocked(a, q, b)
        multi_pin == MultiPin(node)
        all_unlocked == SelectSeq(multi_pin, LAMBDA q : ~app.pins[q].locked)
        single_pin == SinglePin(node)
    IN  CASE node.kind \in {"Craft", "Group", "GameSplitter"} ->
                FoldSeq(SetIfDiffers, app, node.ins \o node.outs)
          [] node.kind \in {"Merger", "CustomSplitter"} ->
                IF IsSinglePin(app, p)
                THEN IF b /\ Len(all_unlocked) = 1
                     THEN SetLocked(app, all_unlocked[1], b)
                     ELSE IF ~b /\ Len(all_unlocked) = 0
                     THEN FoldSeq(SetEach, app, multi_pin)
                     ELSE app
                ELSE IF Len(all_unlocked) = 0
                     THEN app
                     ELSE IF b /\ app.pins[single_pin].locked /\ Len(all_unlocked) = 1
                     THEN SetLocked(app, all_unlocked[1], b)
                     ELSE IF ~b /\ app.pins[single_pin].locked /\ Len(all_unlocked) = 1
                     THEN SetLocked(app, single_pin, b)
                     ELSE app
          [] OTHER -> app

\* SetLockedNode that locks the single pin after any change of a multi pin.
SetLockedNodeLocksSingle(app, p, b) ==
    LET node == app.nodes[app.pins[p].node]
        SetIfDiffers(a, q) == IF a.pins[q].locked # b THEN SetLocked(a, q, b) ELSE a
        SetEach(a, q) == SetLocked(a, q, b)
        multi_pin == MultiPin(node)
        all_unlocked == SelectSeq(multi_pin, LAMBDA q : ~app.pins[q].locked)
        single_pin == SinglePin(node)
    IN  CASE node.kind \in {"Craft", "Group", "GameSplitter"} ->
                FoldSeq(SetIfDiffers, app, node.ins \o node.outs)
          [] node.kind \in {"Merger", "CustomSplitter"} ->
                IF IsSinglePin(app, p)
                THEN \* Single pin updated
                     IF b /\ Len(all_unlocked) = 1
                     THEN SetLocked(app, all_unlocked[1], b)
                     ELSE IF ~b /\ Len(all_unlocked) = 0
                     THEN FoldSeq(SetEach, app, multi_pin)
                     ELSE app
                ELSE \* Multi pin updated
                     IF ~app.pins[single_pin].locked
                     THEN SetLocked(app, single_pin, TRUE)
                     ELSE IF b /\ app.pins[single_pin].locked /\ Len(all_unlocked) = 1
                     THEN SetLocked(app, all_unlocked[1], b)
                     ELSE IF ~b /\ app.pins[single_pin].locked /\ Len(all_unlocked) = 1
                     THEN SetLocked(app, single_pin, b)
                     ELSE app
          [] OTHER -> app

\* The node of p once p and its linked pin hold b (pin.cpp 34-113).
SetLockedNode(app, p, b) ==
    LET node == app.nodes[app.pins[p].node]
        SetIfDiffers(a, q) == IF a.pins[q].locked # b THEN SetLocked(a, q, b) ELSE a
        SetEach(a, q) == SetLocked(a, q, b)
        multi_pin == MultiPin(node)
        all_unlocked == SelectSeq(multi_pin, LAMBDA q : ~app.pins[q].locked)
        single_pin == SinglePin(node)
    IN  CASE node.kind \in {"Craft", "Group", "GameSplitter"} ->
                FoldSeq(SetIfDiffers, app, node.ins \o node.outs)
          [] node.kind \in {"Merger", "CustomSplitter"} ->
                IF IsSinglePin(app, p)
                THEN \* Single pin updated
                     IF b /\ Len(all_unlocked) = 1
                     THEN SetLocked(app, all_unlocked[1], b)
                     ELSE IF ~b /\ Len(all_unlocked) = 0
                     THEN FoldSeq(SetEach, app, multi_pin)
                     ELSE app
                ELSE \* Multi pin updated
                     IF Len(all_unlocked) = 0
                     THEN IF ~app.pins[single_pin].locked
                          THEN SetLocked(app, single_pin, TRUE)
                          ELSE app
                     ELSE IF b /\ app.pins[single_pin].locked /\ Len(all_unlocked) = 1
                     THEN SetLocked(app, all_unlocked[1], b)
                     ELSE IF ~b /\ app.pins[single_pin].locked /\ Len(all_unlocked) = 1
                     THEN SetLocked(app, single_pin, b)
                     ELSE app
          [] OTHER -> app

\* The pin at the other end of the link of p (pin.cpp 26-33).
SetLockedLink(app, p, b) ==
    IF app.pins[p].link # NoLink /\ app.pins[LinkedPin(app, p)].locked # b
    THEN SetLocked(app, LinkedPin(app, p), b)
    ELSE app

\* Pin::SetLocked; app.locking lists the calls in the order they are made,
\* each with its pin, its value and whether it changed the flag of the pin.
SetLocked(app, p, b) ==
    IF app.pins[p].locked = b
    THEN [app EXCEPT !.locking = Append(@, [pin |-> p, value |-> b, changed |-> FALSE])]
    ELSE SetLockedNode(
             SetLockedLink([app EXCEPT !.pins[p].locked = b,
                                       !.locking = Append(@, [pin |-> p, value |-> b,
                                                              changed |-> TRUE])],
                           p, b),
             p, b)

(***************************************************************************)
(* App::UpdateNodesRate, first pass: collect the pins involved             *)
(***************************************************************************)
\* Iteration budget of the two queue loops; a loop still running after
\* MaxIterations pops is reported as diverged.
MaxIterations == 40

\* One `for` loop of the first pass: every pin of `side` passing Cond and not
\* yet relevant becomes relevant and, when linked, pushes Target(p).
Collect(app, st, side, Cond(_), Target(_)) ==
    LET added == SelectSeq(side, LAMBDA q : Cond(q) /\ q \notin st.relevant_pins)
        linked == SelectSeq(added, LAMBDA q : app.pins[q].link # NoLink)
        pushes == Eager([i \in 1..Len(linked) |-> Target(linked[i])])
    IN  [st EXCEPT !.relevant_pins = @ \cup SeqToSet(added),
                   !.pins_to_propagate = @ \o pushes,
                   !.pushed = @ \o pushes]

LinkStart(app, p) == app.links[app.pins[p].link].start
LinkEnd(app, p) == app.links[app.pins[p].link].end

\* The pin pushed for a sibling input of a Merger whose output is locked.
MergerSiblingTarget(app, p) == LinkEnd(app, p)

FirstPassVisit(app, st0, updated_pin) ==
    LET st == [st0 EXCEPT !.relevant_pins = @ \cup {updated_pin}]
        node == app.nodes[app.pins[updated_pin].node]
        kind == node.kind
        Other(q) == q # updated_pin
        Unlocked(q) == ~app.pins[q].locked
        OtherUnlocked(q) == q # updated_pin /\ ~app.pins[q].locked
        Start(q) == LinkStart(app, q)
        End(q) == LinkEnd(app, q)
        SiblingIn(q) == MergerSiblingTarget(app, q)
    IN  CASE kind \in {"Craft", "Group", "GameSplitter"} ->
                Collect(app, Collect(app, st, node.ins, Other, Start), node.outs, Other, End)
          [] kind \in {"CustomSplitter", "Merger"} ->
                LET s1 == IF IsSinglePin(app, updated_pin) THEN st
                          ELSE [st EXCEPT !.multi_pin_constrained = @ \cup {updated_pin}]
                IN  IF app.pins[updated_pin].direction = "Input"
                    THEN LET s2 == Collect(app, s1, node.outs, Unlocked, End)
                         IN  IF kind = "Merger" /\ app.pins[node.outs[1]].locked
                             THEN Collect(app, s2, node.ins, OtherUnlocked, SiblingIn)
                             ELSE s2
                    ELSE LET s2 == Collect(app, s1, node.ins, Unlocked, Start)
                         IN  IF kind = "CustomSplitter" /\ app.pins[node.ins[1]].locked
                             THEN Collect(app, s2, node.outs, OtherUnlocked, End)
                             ELSE s2
          [] OTHER -> st

RECURSIVE FirstPassLoop(_, _)
FirstPassLoop(app, st) ==
    IF st.pins_to_propagate = <<>> THEN st
    ELSE IF st.iterations >= MaxIterations THEN [st EXCEPT !.diverged = TRUE]
    ELSE FirstPassLoop(app,
            FirstPassVisit(app,
                [st EXCEPT !.pins_to_propagate = Tail(@), !.iterations = @ + 1],
                Head(st.pins_to_propagate)))

FirstPass(app, constraint_pin) ==
    LET initial == IF app.pins[constraint_pin].link # NoLink
                   THEN <<constraint_pin, LinkedPin(app, constraint_pin)>>
                   ELSE <<constraint_pin>>
    IN  FirstPassLoop(app, [pins_to_propagate |-> initial,
                            pushed |-> initial,
                            relevant_pins |-> {},
                            multi_pin_constrained |-> {},
                            iterations |-> 0,
                            diverged |-> FALSE])

(***************************************************************************)
(* App::UpdateNodesRate, second pass: variables and equations              *)
(***************************************************************************)
Zeros(n) == Eager([i \in 1..n |-> Zero])

\* equation[index] = value, index counted from 0 as in the source.
SetCoef(equation, index, value) == [equation EXCEPT ![index + 1] = value]

\* The ratio of an output pin of a Craft node (somersloop boost).
CraftOutRatio(node, pin) ==
    Mul(pin.base_rate, Add(One, Mul(node.num_somersloop, node.somersloop_mult)))

create_variable(app, st, pin) ==
    IF pin \in DOMAIN st.associated_variable_index THEN st
    ELSE
    LET node == app.nodes[app.pins[pin].node]
        kind == node.kind
        n == st.num_variables
        InRatio(q) == IF IsPowered(kind) THEN app.pins[q].base_rate ELSE One
        OutRatio(q) == IF kind = "Group" THEN app.pins[q].base_rate
                       ELSE IF kind = "Craft" THEN CraftOutRatio(node, app.pins[q])
                       ELSE FractionalNumber(1, Len(node.outs))
        fresh == IF kind \in {"Craft", "Group", "GameSplitter"}
                 THEN Eager([q \in SeqToSet(node.ins) \cup SeqToSet(node.outs) |->
                          [first |-> n,
                           second |-> IF app.pins[q].direction = "Input"
                                      THEN InRatio(q) ELSE OutRatio(q)]])
                 ELSE (pin :> [first |-> n, second |-> One])
    IN  [st EXCEPT
            \* insert keeps an entry that is already there
            !.associated_variable_index = @ @@ fresh,
            !.equations_coefficients = Eager([i \in DOMAIN @ |-> Append(@[i], Zero)]),
            !.num_variables = n + 1]

\* LinkEquation that marks every link as flowing forward.
LinkEquationForward(app, st, p) ==
    LET link == app.pins[p].link
        start == app.links[link].start
        end == app.links[link].end
        start_variable == st.associated_variable_index[start]
        end_variable == st.associated_variable_index[end]
        equation == SetCoef(SetCoef(Zeros(st.num_variables),
                                    start_variable.first,
                                    Mul(FractionalNumber(-1, 1), start_variable.second)),
                            end_variable.first, end_variable.second)
        other == IF app.pins[p].direction = "Input" THEN start ELSE end
    IN  [st EXCEPT
            !.processed_links = @ \cup {link},
            !.equations_coefficients = Append(@, equation),
            !.constants = Append(@, Zero),
            !.pins_to_propagate = Append(@, other),
            !.flow = [@ EXCEPT ![link] = "Forward"]]

\* The equality equation of a link whose two ends have a variable in st,
\* and the pin the link leads to (app.cpp 719-732).
LinkEquation(app, st, p) ==
    LET link == app.pins[p].link
        start == app.links[link].start
        end == app.links[link].end
        start_variable == st.associated_variable_index[start]
        end_variable == st.associated_variable_index[end]
        \* X - Y = 0
        equation == SetCoef(SetCoef(Zeros(st.num_variables),
                                    start_variable.first,
                                    Mul(FractionalNumber(-1, 1), start_variable.second)),
                            end_variable.first, end_variable.second)
        other == IF app.pins[p].direction = "Input" THEN start ELSE end
    IN  [st EXCEPT
            !.processed_links = @ \cup {link},
            !.equations_coefficients = Append(@, equation),
            !.constants = Append(@, Zero),
            !.pins_to_propagate = Append(@, other),
            !.flow = [@ EXCEPT ![link] =
                        IF @ # "none" THEN @
                        ELSE IF app.pins[p].direction = "Input" THEN "Backward"
                        ELSE "Forward"]]

\* process_link without the set of processed links: a link is processed each
\* time one of its pins is visited.
process_link_again(app, st, p) ==
    IF app.pins[p].link = NoLink THEN st
    ELSE LinkEquation(app,
            create_variable(app,
                create_variable(app, st, app.links[app.pins[p].link].start),
                app.links[app.pins[p].link].end),
            p)

process_link(app, st, p) ==
    IF app.pins[p].link = NoLink \/ app.pins[p].link \in st.processed_links THEN st
    ELSE LinkEquation(app,
            create_variable(app,
                create_variable(app, st, app.links[app.pins[p].link].start),
                app.links[app.pins[p].link].end),
            p)

\* associated_variable_index.at(pin).first: a missing key raises
\* std::out_of_range, recorded in out_of_range.
VarIndex(st, pin) ==
    IF pin \in DOMAIN st.associated_variable_index
    THEN st.associated_variable_index[pin].first
    ELSE 0

CheckAt(st, pin) ==
    IF pin \in DOMAIN st.associated_variable_index THEN st
    ELSE [st EXCEPT !.out_of_range = TRUE]

\* The multi pins of a node updated through their own link, the unlocked
\* ones that are not, and the locked ones that are not (app.cpp 786-802).
Constrained(st, node) ==
    SelectSeq(MultiPin(node), LAMBDA q : q \in st.multi_pin_constrained)

NotConstrained(app, st, node) ==
    SelectSeq(MultiPin(node), LAMBDA q : q \notin st.multi_pin_constrained /\ ~app.pins[q].locked)

LockedPins(app, st, node) ==
    SelectSeq(MultiPin(node), LAMBDA q : q \notin st.multi_pin_constrained /\ app.pins[q].locked)

SumOfRates(app, some_pins) ==
    LET SumRate(acc, q) == Add(acc, app.pins[q].current_rate)
    IN  FoldSeq(SumRate, Zero, some_pins)

\* The variables of the constrained multi pins (app.cpp 788-792).
CreateConstrained(app, st0, node) ==
    LET Create(st, q) == create_variable(app, st, q)
    IN  FoldSeq(Create, st0, Constrained(st0, node))

\* input == sum output, when no unlocked pin is left to take the rest
\* (app.cpp 805-828).  st holds the variables of the constrained pins.
SumEquation(app, st, node) ==
    LET single_pin == SinglePin(node)
        single_locked == app.pins[single_pin].locked
        constrained == Constrained(st, node)
        e0 == Zeros(st.num_variables)
        e1 == IF ~single_locked THEN SetCoef(e0, VarIndex(st, single_pin), One) ELSE e0
        SetMinus(e, q) == SetCoef(e, VarIndex(st, q), FractionalNumber(-1, 1))
        sum_locked == SumOfRates(app, LockedPins(app, st, node))
        sum_constant == IF ~single_locked THEN sum_locked
                        ELSE Sub(sum_locked, app.pins[single_pin].current_rate)
        checked == IF single_locked THEN st ELSE CheckAt(st, single_pin)
    IN  IF Len(NotConstrained(app, st, node)) = 0
        THEN [checked EXCEPT
                !.equations_coefficients = Append(@, FoldSeq(SetMinus, e1, constrained)),
                !.constants = Append(@, sum_constant)]
        ELSE checked

\* The constant of a ratio equation that forgets the locked pins.
RatioConstantOfAll(single_locked, multiplier, single_rate, sum_locked) ==
    IF single_locked THEN Mul(multiplier, single_rate) ELSE Zero

\* The constant of a ratio equation (app.cpp 860-867).
RatioConstant(single_locked, multiplier, single_rate, sum_locked) ==
    IF single_locked
    THEN Mul(multiplier, Sub(single_rate, sum_locked))
    ELSE Mul(Mul(FractionalNumber(-1, 1), multiplier), sum_locked)

\* The ratio equality equation of the unlocked, not constrained multi pin q,
\* which has a variable in st (app.cpp 844-867).
RatioEquation(app, st, node, q) ==
    LET single_pin == SinglePin(node)
        single_locked == app.pins[single_pin].locked
        not_constrained == NotConstrained(app, st, node)
        old_sum_not_constrained == SumOfRates(app, not_constrained)
        multiplier == IF old_sum_not_constrained = Zero
                      THEN FractionalNumber(1, Len(not_constrained))
                      ELSE Div(app.pins[q].current_rate, old_sum_not_constrained)
        e0 == Zeros(st.num_variables)
        e1 == IF ~single_locked
              THEN SetCoef(e0, VarIndex(st, single_pin), Mul(FractionalNumber(-1, 1), multiplier))
              ELSE e0
        SetMult(e, c) == SetCoef(e, VarIndex(st, c), multiplier)
        e2 == FoldSeq(SetMult, e1, Constrained(st, node))
        e3 == SetCoef(e2, VarIndex(st, q), One)
    IN  [st EXCEPT
            !.equations_coefficients = Append(@, e3),
            !.constants = Append(@, RatioConstant(single_locked, multiplier,
                                        app.pins[single_pin].current_rate,
                                        SumOfRates(app, LockedPins(app, st, node))))]

\* Single pin updated or locked (app.cpp 779-870).
SingleSideEquations(app, st0, node) ==
    LET Ratio(st, q) ==
            process_link(app, RatioEquation(app, create_variable(app, st, q), node, q), q)
    IN  FoldSeq(Ratio, SumEquation(app, CreateConstrained(app, st0, node), node),
                NotConstrained(app, st0, node))

\* The sum constraint that leaves out the multi pins the call does not reach.
SumConstraintEquationOfRelevant(app, st, node, relevant_pins) ==
    LET relevant == SelectSeq(MultiPin(node), LAMBDA q : q \in relevant_pins)
        e0 == SetCoef(Zeros(st.num_variables), VarIndex(st, SinglePin(node)), One)
        SetMinus(e, q) == SetCoef(e, VarIndex(st, q), FractionalNumber(-1, 1))
    IN  [st EXCEPT !.equations_coefficients = Append(@, FoldSeq(SetMinus, e0, relevant)),
                   !.constants = Append(@, Zero)]

\* The sum constraint of a node whose single pin and relevant multi pins
\* have a variable in st (app.cpp 878-893).
SumConstraintEquation(app, st, node, relevant_pins) ==
    LET relevant == SelectSeq(MultiPin(node), LAMBDA q : q \in relevant_pins)
        others == SelectSeq(MultiPin(node), LAMBDA q : q \notin relevant_pins)
        e0 == SetCoef(Zeros(st.num_variables), VarIndex(st, SinglePin(node)), One)
        SetMinus(e, q) == SetCoef(e, VarIndex(st, q), FractionalNumber(-1, 1))
    IN  [st EXCEPT !.equations_coefficients = Append(@, FoldSeq(SetMinus, e0, relevant)),
                   !.constants = Append(@, SumOfRates(app, others))]

\* A multi pin updated and the single pin not locked (app.cpp 871-897).  The
\* row is created before the variables of the multi pins, which each add a
\* column to it.
MultiSideEquations(app, st0, node, relevant_pins) ==
    LET CreateRelevant(st, q) == create_variable(app, st, q)
        relevant == SelectSeq(MultiPin(node), LAMBDA q : q \in relevant_pins)
    IN  IF SinglePin(node) \in DOMAIN st0.associated_variable_index THEN st0
        ELSE process_link(app,
                SumConstraintEquation(app,
                    FoldSeq(CreateRelevant, create_variable(app, st0, SinglePin(node)), relevant),
                    node, relevant_pins),
                SinglePin(node))

SecondPassVisit(app, st, updated_pin, relevant_pins) ==
    LET node == app.nodes[app.pins[updated_pin].node]
        kind == node.kind
        Process(s, q) == process_link(app, s, q)
    IN  CASE kind \in {"Craft", "Group", "GameSplitter"} ->
                FoldSeq(Process, st, node.ins \o node.outs)
          [] kind \in {"Merger", "CustomSplitter"} ->
                IF IsSinglePin(app, updated_pin) \/ app.pins[SinglePin(node)].locked
                THEN SingleSideEquations(app, st, node)
                ELSE MultiSideEquations(app, st, node, relevant_pins)
          [] OTHER -> st

RECURSIVE SecondPassLoop(_, _, _)
SecondPassLoop(app, st, relevant_pins) ==
    IF st.pins_to_propagate = <<>> THEN st
    ELSE IF st.iterations >= MaxIterations THEN [st EXCEPT !.diverged = TRUE]
    ELSE SecondPassLoop(app,
            SecondPassVisit(app,
                [st EXCEPT !.pins_to_propagate = Tail(@), !.iterations = @ + 1],
                Head(st.pins_to_propagate), relevant_pins),
            relevant_pins)

\* The constraint equation written on the variable instead of on the pin:
\* the ratio of the pin is left out.
ConstraintEquationOfVariable(st, constraint_pin, constraint_value) ==
    [st EXCEPT
        !.equations_coefficients = Append(@, <<One>>),
        !.constants = Append(@, constraint_value)]

\* P = constraint, for the constraint pin that has a variable in st
\* (app.cpp 738-740).
ConstraintEquation(st, constraint_pin, constraint_value) ==
    [st EXCEPT
        !.equations_coefficients =
            Append(@, <<st.associated_variable_index[constraint_pin].second>>),
        !.constants = Append(@, constraint_value)]

SecondPass(app, first, constraint_pin, constraint_value) ==
    LET st0 == [pins_to_propagate |-> <<constraint_pin>>,
                multi_pin_constrained |-> first.multi_pin_constrained,
                associated_variable_index |-> <<>>,
                num_variables |-> 0,
                equations_coefficients |-> <<>>,
                constants |-> <<>>,
                processed_links |-> {},
                flow |-> Eager([l \in DOMAIN app.links |-> "none"]),
                iterations |-> 0,
                diverged |-> FALSE,
                out_of_range |-> FALSE]
    IN  SecondPassLoop(app,
            process_link(app,
                ConstraintEquation(create_variable(app, st0, constraint_pin),
                                   constraint_pin, constraint_value),
                constraint_pin),
            first.relevant_pins)

(***************************************************************************)
(* App::UpdateNodesRate: Gaussian elimination and back substitution        *)
(* Rows and columns are counted from 0 as in the source.                   *)
(***************************************************************************)
At(matrix, i, j) == matrix[i + 1][j + 1]

\* First row of h..num_equations-1 holding the largest |matrix[i][k]|.
PivotRow(matrix, h, k, num_equations) ==
    CHOOSE i \in h..(num_equations - 1) :
        \A j \in h..(num_equations - 1) :
            /\ ~AbsGt(At(matrix, j, k), At(matrix, i, k))
            /\ j < i => AbsGt(At(matrix, i, k), At(matrix, j, k))

SwapRows(matrix, a, b) ==
    [matrix EXCEPT ![a + 1] = matrix[b + 1], ![b + 1] = matrix[a + 1]]

EliminateBelow(matrix, h, k, num_variables) ==
    Eager([i \in DOMAIN matrix |->
        IF i - 1 <= h THEN matrix[i]
        ELSE LET factor == Div(At(matrix, i - 1, k), At(matrix, h, k))
             IN  Eager([j \in DOMAIN matrix[i] |->
                    IF j - 1 < k THEN matrix[i][j]
                    ELSE IF j - 1 = k THEN Zero
                    ELSE Sub(matrix[i][j], Mul(matrix[h + 1][j], factor))])])

RECURSIVE GaussianElimination(_, _, _, _, _)
GaussianElimination(matrix, h, k, num_equations, num_variables) ==
    IF ~(h < num_equations /\ k < num_variables) THEN [matrix |-> matrix, h |-> h]
    ELSE
    LET i_max == PivotRow(matrix, h, k, num_equations) IN
    IF At(matrix, i_max, k).numerator = 0
    THEN GaussianElimination(matrix, h, k + 1, num_equations, num_variables)
    ELSE GaussianElimination(
            EliminateBelow(IF i_max # h THEN SwapRows(matrix, h, i_max) ELSE matrix,
                           h, k, num_variables),
            h + 1, k + 1, num_equations, num_variables)

\* NoSolution without the look at the rows left below the triangular block.
NoSolutionSingularOnly(matrix, h, num_equations, num_variables) ==
    h < num_variables /\ At(matrix, h, h) = Zero

\* Singular matrix, or a leftover row that is not all zero.
NoSolution(matrix, h, num_equations, num_variables) ==
    \/ h < num_variables /\ At(matrix, h, h) = Zero
    \/ \E i \in h..(num_equations - 1) : \E j \in 0..num_variables :
            At(matrix, i, j) # Zero

RECURSIVE BackSubstitution(_, _, _, _)
\* solution is indexed 0..num_variables-1; entries above i are already set.
BackSubstitution(matrix, solution, i, num_variables) ==
    IF i < 0 THEN solution
    ELSE
    LET AddTerm(acc, j) == Add(acc, Mul(At(matrix, i, j), solution[j]))
        sum == FoldSeq(AddTerm, Zero, Eager([j \in 1..(num_variables - 1 - i) |-> i + j]))
        value == Div(Sub(At(matrix, i, num_variables), sum), At(matrix, i, i))
    IN  BackSubstitution(matrix, [solution EXCEPT ![i] = value], i - 1, num_variables)

\* The augmented matrix [equations_coefficients | constants].
AugmentedMatrix(equations_coefficients, constants) ==
    Eager([i \in DOMAIN equations_coefficients |-> Append(equations_coefficients[i], constants[i])])

(***************************************************************************)
(* PoweredNode::UpdateRate (CraftNode, GroupNode)                          *)
(***************************************************************************)
UpdateRate(app, n, new_rate) ==
    LET node == app.nodes[n]
        OutRate(q) == IF node.kind = "Craft"
                      THEN Mul(Mul(app.pins[q].base_rate, new_rate),
                               Add(One, Mul(node.num_somersloop, node.somersloop_mult)))
                      ELSE Mul(app.pins[q].base_rate, new_rate)
    IN  [app EXCEPT
            !.nodes[n].current_rate = new_rate,
            !.pins = Eager([q \in DOMAIN @ |->
                        IF q \in SeqToSet(node.ins)
                        THEN [@[q] EXCEPT !.current_rate = Mul(app.pins[q].base_rate, new_rate)]
                        ELSE IF q \in SeqToSet(node.outs)
                        THEN [@[q] EXCEPT !.current_rate = OutRate(q)]
                        ELSE @[q]])]

(***************************************************************************)
(* App::UpdateNodesRate: checks, solution, write-back                      *)
(***************************************************************************)
RECURSIVE SortedSeq(_)
SortedSeq(S) ==
    IF S = {} THEN <<>>
    ELSE LET m == CHOOSE x \in S : \A y \in S : x <= y
         IN  <<m>> \o SortedSeq(S \ {m})

\* The nodes in the order of the nodes vector (creation order).
NodeOrder(app) == SortedSeq(DOMAIN app.nodes)

\* The value the solution gives a pin that has a variable.
SolvedRate(avi, solution, p) == Mul(solution[avi[p].first], avi[p].second)

\* The new rate of one pin, the rate of its node left as it is.
WriteBackPinOnly(avi, solution, app, q) ==
    IF q \notin DOMAIN avi THEN app
    ELSE [app EXCEPT !.pins[q].current_rate = SolvedRate(avi, solution, q)]

\* WriteBackPin that gives the new rate of a Sink input to every input of
\* the Sink.
WriteBackPinOfSink(avi, solution, app, q) ==
    IF q \notin DOMAIN avi THEN app
    ELSE IF KindOf(app, q) = "Sink"
    THEN [app EXCEPT !.pins = Eager([r \in DOMAIN @ |->
                        IF @[r].node = app.pins[q].node
                        THEN [@[r] EXCEPT !.current_rate = SolvedRate(avi, solution, q)]
                        ELSE @[r]])]
    ELSE WriteBackPinOnly(avi, solution, app, q)

\* The new rate of one pin and, for a powered node, of its node.
WriteBackPin(avi, solution, app, q) ==
        IF q \notin DOMAIN avi THEN app
        ELSE
        LET new_rate == SolvedRate(avi, solution, q)
            n == app.pins[q].node
            node == app.nodes[n]
            a1 == [app EXCEPT !.pins[q].current_rate = new_rate]
            divisor == IF app.pins[q].direction = "Output" /\ node.kind = "Craft"
                       THEN CraftOutRatio(node, app.pins[q])
                       ELSE app.pins[q].base_rate
            new_node_rate == Div(new_rate, divisor)
        IN  IF IsPowered(node.kind) /\ new_node_rate # node.current_rate
            THEN UpdateRate(a1, n, new_node_rate)
            ELSE a1

WriteBack(app, avi, solution) ==
    LET OnePin(a, q) == WriteBackPin(avi, solution, a, q)
        OneNode(a, n) == FoldSeq(OnePin, a, a.nodes[n].ins \o a.nodes[n].outs)
    IN  FoldSeq(OneNode, app, NodeOrder(app))

\* Reset all errors and all links flow (app.cpp 481-499).
ResetErrors(app) ==
    [app EXCEPT !.pins = Eager([q \in DOMAIN @ |-> [@[q] EXCEPT !.error = FALSE]]),
                !.links = Eager([l \in DOMAIN @ |-> [@[l] EXCEPT !.flow = "none"]])]

\* What a call of UpdateNodesRate returns: outcome is "ok" (returns true),
\* "false" (returns false), an exception "Not enough equations" /
\* "Missing a variable in equation" (std::runtime_error) or "out_of_range"
\* (map::at on a missing key); pre / post are the graph when the call started
\* and returned.
Returned(call, outcome, post, solution) ==
    [pin |-> call.pin, value |-> call.value, pre |-> call.pre, outcome |-> outcome,
     post |-> post, solution |-> solution, report |-> call.report]

\* WriteSolution that puts every pin of the call in error once a variable
\* is negative.
WriteSolutionFlagsAll(call, solution) ==
    LET avi == call.second.associated_variable_index
        negative == {q \in DOMAIN avi : Lt(solution[avi[q].first], Zero)}
    IN  IF negative # {}
        THEN Returned(call, "false",
                      [call.app1 EXCEPT !.pins = Eager([q \in DOMAIN @ |->
                                                [@[q] EXCEPT !.error = (q \in DOMAIN avi)]])],
                      solution)
        ELSE Returned(call, "ok", WriteBack(call.app1, avi, solution), solution)

\* Negative rates, flow of the links and new rates of the pins and nodes
\* (app.cpp 1022-1113).
WriteSolution(call, solution) ==
    LET avi == call.second.associated_variable_index
        app1 == call.app1
        negative == {q \in DOMAIN avi : Lt(solution[avi[q].first], Zero)}
        Kept(l) == LET ln == app1.links[l] IN
                   /\ ln.start \in DOMAIN avi
                   /\ app1.pins[ln.start].current_rate = SolvedRate(avi, solution, ln.start)
                   /\ ln.end \in DOMAIN avi
                   /\ app1.pins[ln.end].current_rate = SolvedRate(avi, solution, ln.end)
    IN  IF negative # {}
        THEN Returned(call, "false",
                      [app1 EXCEPT !.pins = Eager([q \in DOMAIN @ |->
                                                [@[q] EXCEPT !.error = (q \in negative)]])],
                      solution)
        ELSE Returned(call, "ok",
                      WriteBack([app1 EXCEPT !.links = Eager([l \in DOMAIN @ |->
                                                IF Kept(l) THEN [@[l] EXCEPT !.flow = "none"]
                                                ELSE @[l]])],
                                avi, solution),
                      solution)

\* Singular matrix and leftover rows, then back substitution
\* (app.cpp 986-1020).
BackSubstitute(call, ge) ==
    LET num_variables == call.second.num_variables
        num_equations == Len(call.second.equations_coefficients)
    IN  IF NoSolution(ge.matrix, ge.h, num_equations, num_variables)
        THEN Returned(call, "false", call.app1, <<>>)
        ELSE WriteSolution(call,
                BackSubstitution(ge.matrix, Eager([i \in 0..(num_variables - 1) |-> Zero]),
                                 num_variables - 1, num_variables))

\* Size checks and Gaussian elimination (app.cpp 906-984).
SolveEquations(call) ==
    LET second == call.second
        num_variables == second.num_variables
        num_equations == Len(second.equations_coefficients)
    IN  IF call.first.diverged \/ second.diverged
        THEN Returned(call, "diverged", call.app1, <<>>)
        ELSE IF second.out_of_range THEN Returned(call, "out_of_range", call.app1, <<>>)
        ELSE IF num_equations < num_variables
        THEN Returned(call, "Not enough equations", call.app1, <<>>)
        ELSE IF \E i \in DOMAIN second.equations_coefficients :
                    Len(second.equations_coefficients[i]) # num_variables
        THEN Returned(call, "Missing a variable in equation", call.app1, <<>>)
        ELSE BackSubstitute(call,
                GaussianElimination(
                    AugmentedMatrix(second.equations_coefficients, second.constants),
                    0, 0, num_equations, num_variables))

\* The state of a call after its two passes: app1 is the graph with the
\* errors reset and the flows process_link has set on the links it went
\* through.
Passes(app, first, second, constraint_pin, constraint_value) ==
    [pin |-> constraint_pin, value |-> constraint_value, pre |-> app,
     first |-> first, second |-> second,
     app1 |-> [ResetErrors(app) EXCEPT
                 !.links = Eager([l \in DOMAIN @ |-> [@[l] EXCEPT !.flow = second.flow[l]]])],
     report |-> [relevant_pins |-> first.relevant_pins,
                 multi_pin_constrained |-> first.multi_pin_constrained,
                 pushed |-> first.pushed,
                 first_iterations |-> first.iterations,
                 second_iterations |-> second.iterations,
                 associated_variable_index |-> second.associated_variable_index,
                 num_variables |-> second.num_variables,
                 num_equations |-> Len(second.equations_coefficients),
                 processed_links |-> second.processed_links,
                 passes_flow |-> second.flow]]

\* The second pass over the pins the first pass found (app.cpp 746-904).
BuildEquations(app, first, constraint_pin, constraint_value) ==
    SolveEquations(Passes(app, first,
                          SecondPass(app, first, constraint_pin, constraint_value),
                          constraint_pin, constraint_value))

\* App::UpdateNodesRate.  Neither pass reads the errors or the flows the
\* call resets first.
UpdateNodesRate(app, constraint_pin, constraint_value) ==
    BuildEquations(app, FirstPass(app, constraint_pin), constraint_pin, constraint_value)

(***************************************************************************)
(* Editing operations.  Each returns [app, solves]: the graph after the    *)
(* operation and the UpdateNodesRate calls it made.                        *)
(***************************************************************************)
Succeeded(solve) == solve.outcome = "ok"
\* The exceptions the callers catch as std::runtime_error.
Threw(solve) == solve.outcome \in {"Not enough equations", "Missing a variable in equation"}

\* App::DeleteLink
DeleteLink(app, id) ==
    IF id \notin DOMAIN app.links THEN app
    ELSE
    LET start == app.links[id].start
        end == app.links[id].end
        a1 == [app EXCEPT !.pins[start].link = NoLink, !.pins[end].link = NoLink]
        a2 == IF KindOf(a1, end) = "Sink"
              THEN [a1 EXCEPT !.pins[end].current_rate = FractionalNumber(0, 1)]
              ELSE a1
    IN  [a2 EXCEPT !.links = Eager([l \in DOMAIN @ \ {id} |-> @[l]])]

\* The lock state of the two ends of a new link (app.cpp 395-400).
SetLockState(app, start, end) ==
    IF app.pins[start].locked \/ app.pins[end].locked
    THEN SetLocked(SetLocked(app, start, TRUE), end, TRUE)
    ELSE app

\* The new link of App::CreateLink (app.cpp 371-376).
EmplaceLink(app, start, end) ==
    LET real_end == IF app.pins[end].direction = "Input" THEN end ELSE start
        real_start == IF app.pins[start].direction = "Output" THEN start ELSE end
        id == app.next_id
    IN  [app EXCEPT
           !.next_id = id + 1,
           !.links = @ @@ (id :> [start |-> real_start, end |-> real_end, flow |-> "none"]),
           !.pins[start].link = id,
           !.pins[end].link = id]

\* App::CreateLink after its call of UpdateNodesRate (app.cpp 379-400).
CreateLinkUpdated(solve, id, start, end) ==
    IF ~Succeeded(solve) THEN [app |-> DeleteLink(solve.post, id), solves |-> <<solve>>]
    ELSE [app |-> SetLockState(solve.post, start, end), solves |-> <<solve>>]

\* App::CreateLink once the link is in the graph (app.cpp 377-400).
CreateLinkUpdate(a1, id, start, end, trigger_update) ==
    IF trigger_update /\ a1.pins[start].current_rate # a1.pins[end].current_rate
    THEN CreateLinkUpdated(UpdateNodesRate(a1, start, a1.pins[start].current_rate),
                           id, start, end)
    ELSE [app |-> SetLockState(a1, start, end), solves |-> <<>>]

\* App::CreateLink
CreateLink(app, start, end, trigger_update) ==
    CreateLinkUpdate(EmplaceLink(app, start, end), app.next_id, start, end, trigger_update)

\* The guards of App::DragLink (every pin carries the same item here).
DragLinkAccepted(app, start_pin, end_pin) ==
    /\ start_pin # end_pin
    /\ app.pins[start_pin].direction # app.pins[end_pin].direction
    /\ app.pins[start_pin].node # app.pins[end_pin].node
    /\ app.pins[start_pin].link = NoLink
    /\ app.pins[end_pin].link = NoLink
    /\ ~(/\ app.pins[start_pin].locked
         /\ app.pins[end_pin].locked
         /\ app.pins[start_pin].current_rate # app.pins[end_pin].current_rate)

\* Pull the value of end_pin instead of pushing the one of start_pin.
DragLinkPulls(app, start_pin, end_pin) ==
    \/ /\ (IsOrganizer(KindOf(app, start_pin)) \/ KindOf(app, start_pin) = "Sink")
       /\ app.pins[start_pin].current_rate.numerator = 0
    \/ app.pins[end_pin].locked

\* App::DragLink
DragLink(app, start_pin, end_pin) ==
    IF ~DragLinkAccepted(app, start_pin, end_pin) THEN [app |-> app, solves |-> <<>>]
    ELSE IF DragLinkPulls(app, start_pin, end_pin)
    THEN CreateLink(app, end_pin, start_pin, TRUE)
    ELSE CreateLink(app, start_pin, end_pin, TRUE)

\* The graph an operation leaves when its only call of UpdateNodesRate
\* decides it.
Updated(solve) == [app |-> solve.post, solves |-> <<solve>>]

\* A rate typed in the field of a pin (App::RenderNodes, app.cpp 2247-2267
\* and 2387-2409): the rate itself is only written by a solve that succeeds.
EditPinRate(app, p, value) == Updated(UpdateNodesRate(app, p, value))

\* The node rate edit after the call on the first output (app.cpp 2596-2614).
NodeRateOutputUpdated(s_out, in_done, n, old_rate) ==
    [app |-> IF Succeeded(s_out) THEN s_out.post ELSE UpdateRate(s_out.post, n, old_rate),
     solves |-> Append(in_done, s_out)]

\* The second operand of the condition of app.cpp 2596-2597.
NodeRateOutput(a2, in_done, n, old_rate) ==
    IF Len(a2.nodes[n].outs) > 0
    THEN NodeRateOutputUpdated(
            UpdateNodesRate(a2, a2.nodes[n].outs[1], a2.pins[a2.nodes[n].outs[1]].current_rate),
            in_done, n, old_rate)
    ELSE [app |-> a2, solves |-> in_done]

\* The node rate edit after the call on the first input (app.cpp 2596-2614).
NodeRateInputUpdated(s_in, n, old_rate) ==
    IF ~Succeeded(s_in)
    THEN [app |-> UpdateRate(s_in.post, n, old_rate), solves |-> <<s_in>>]
    ELSE NodeRateOutput(s_in.post, <<s_in>>, n, old_rate)

\* The first operand of the condition of app.cpp 2596-2597.
NodeRateInput(a1, n, old_rate) ==
    IF Len(a1.nodes[n].ins) > 0
    THEN NodeRateInputUpdated(
            UpdateNodesRate(a1, a1.nodes[n].ins[1], a1.pins[a1.nodes[n].ins[1]].current_rate),
            n, old_rate)
    ELSE NodeRateOutput(a1, <<>>, n, old_rate)

\* A rate typed in the field of a Craft / Group node (app.cpp 2589-2615).
EditNodeRate(app, n, value) ==
    NodeRateInput(UpdateRate(app, n, value), n, app.nodes[n].current_rate)

\* The pin a "+" button adds (app.cpp 2300-2306 and 2467-2476).  The fifth
\* argument of the Pin constructor is its base_rate.
EmplacePin(app, n) ==
    LET node == app.nodes[n]
        id == app.next_id
        input_side == node.kind \in {"Merger", "Sink"}
        fifth == IF input_side
                 THEN node.kind = "Merger" /\ app.pins[node.outs[1]].locked
                 ELSE app.pins[node.ins[1]].locked
        pin == Pin(IF input_side THEN "Input" ELSE "Output", n,
                   FractionalNumber(IF fifth THEN 1 ELSE 0, 1))
    IN  [app EXCEPT
           !.next_id = id + 1,
           !.pins = @ @@ (id :> pin),
           !.nodes[n].ins = IF input_side THEN Append(@, id) ELSE @,
           !.nodes[n].outs = IF input_side THEN @ ELSE Append(@, id)]

\* What follows the new pin: a GameSplitter shares its input again.
AddPinUpdate(a1, n) ==
    IF a1.nodes[n].kind = "GameSplitter"
    THEN Updated(UpdateNodesRate(a1, a1.nodes[n].ins[1], a1.pins[a1.nodes[n].ins[1]].current_rate))
    ELSE [app |-> a1, solves |-> <<>>]

\* The "+" button of a Merger / Sink (a new input) or of a CustomSplitter /
\* GameSplitter (a new output), app.cpp 2298-2307 and 2465-2490.
AddPin(app, n) == AddPinUpdate(EmplacePin(app, n), n)

RemovablePins(node) ==
    IF node.kind \in {"Merger", "Sink"} THEN node.ins
    ELSE IF node.kind \in {"CustomSplitter", "GameSplitter"} THEN node.outs
    ELSE <<>>

\* Whether the caller puts the old rate of the single pin back after the
\* solve raised an exception (Merger: app.cpp 2339-2344, CustomSplitter:
\* app.cpp 2522-2526).
RestoresAfterThrow(kind) == kind = "Merger"

\* The pin and its link leave the graph.
ErasePin(app, n, idx) ==
    LET node == app.nodes[n]
        input_side == node.kind \in {"Merger", "Sink"}
        removed == RemovablePins(node)[idx]
        a1 == IF app.pins[removed].link # NoLink
              THEN DeleteLink(app, app.pins[removed].link)
              ELSE app
    IN  [a1 EXCEPT
           !.nodes[n].ins = IF input_side THEN RemoveAt(@, idx) ELSE @,
           !.nodes[n].outs = IF input_side THEN @ ELSE RemoveAt(@, idx),
           !.pins = Eager([q \in DOMAIN @ \ {removed} |-> @[q]])]

\* The removal of a Merger / CustomSplitter pin after its call of
\* UpdateNodesRate.
RemovePinUpdated(solve, n, old_single) ==
    LET node == solve.pre.nodes[n]
        single_pin == SinglePin(node)
        num_unlocked == Len(SelectSeq(MultiPin(node), LAMBDA q : ~solve.pre.pins[q].locked))
        a4 == IF Succeeded(solve) THEN solve.post
              ELSE IF Threw(solve) /\ ~RestoresAfterThrow(node.kind) THEN solve.post
              ELSE [solve.post EXCEPT !.pins[single_pin].current_rate = old_single]
    IN  [app |-> SetLocked(a4, single_pin, num_unlocked = 0), solves |-> <<solve>>]

\* The single pin takes the sum of the pins left, then the graph is solved
\* from it.
RemovePinUpdate(a2, n) ==
    LET node == a2.nodes[n]
        single_pin == SinglePin(node)
        sum == SumOfRates(a2, MultiPin(node))
        game_in == node.ins[1]
    IN  CASE node.kind \in {"Merger", "CustomSplitter"} ->
                RemovePinUpdated(
                    UpdateNodesRate([a2 EXCEPT !.pins[single_pin].current_rate = sum],
                                    single_pin, sum),
                    n, a2.pins[single_pin].current_rate)
          [] node.kind = "GameSplitter" ->
                Updated(UpdateNodesRate(a2, game_in, a2.pins[game_in].current_rate))
          [] OTHER -> [app |-> a2, solves |-> <<>>]

\* The "x" button of a pin (app.cpp 2310-2349 and 2493-2547).
RemovePin(app, n, idx) == RemovePinUpdate(ErasePin(app, n, idx), n)

\* The link of a pin deleted, when it has one (app.cpp 461-474).
DeletePinLink(app, q) ==
    IF app.pins[q].link # NoLink THEN DeleteLink(app, app.pins[q].link) ELSE app

\* DeleteNode that leaves the links of the outputs in the list.
DeleteNodeInputLinks(app, n) ==
    LET node == app.nodes[n]
        gone == SeqToSet(node.ins) \cup SeqToSet(node.outs)
        a1 == FoldSeq(DeletePinLink, app, node.ins)
    IN  [a1 EXCEPT !.nodes = Eager([m \in DOMAIN @ \ {n} |-> @[m]]),
                   !.pins = Eager([q \in DOMAIN @ \ gone |-> @[q]])]

\* App::DeleteNode: the links of the inputs, the links of the outputs, then
\* the node and with it its pins.
DeleteNode(app, n) ==
    LET node == app.nodes[n]
        gone == SeqToSet(node.ins) \cup SeqToSet(node.outs)
        a1 == FoldSeq(DeletePinLink, app, node.ins \o node.outs)
    IN  [a1 EXCEPT !.nodes = Eager([m \in DOMAIN @ \ {n} |-> @[m]]),
                   !.pins = Eager([q \in DOMAIN @ \ gone |-> @[q]])]

\* Right click on a pin (App::CustomKeyControl, app.cpp 3251-3258).
ToggleLock(app, p) ==
    [app |-> SetLocked(app, p, ~app.pins[p].locked), solves |-> <<>>]

\* App::RenderLinks: a flow is shown once, then cleared.
RenderLinks(app) ==
    [app |-> [app EXCEPT !.links = Eager([l \in DOMAIN @ |-> [@[l] EXCEPT !.flow = "none"]])],
     solves |-> <<>>]

(***************************************************************************)
(* The recipes of the Craft nodes of the model                             *)
(***************************************************************************)
Recipes ==
    [smelt |-> [ins |-> <<FractionalNumber(2, 1)>>, outs |-> <<FractionalNumber(1, 1)>>,
                somersloop_mult |-> FractionalNumber(1, 1)],
     refine |-> [ins |-> <<FractionalNumber(1, 1)>>,
                 outs |-> <<FractionalNumber(2, 1), FractionalNumber(1, 1)>>,
                 somersloop_mult |-> FractionalNumber(1, 2)]]

\* App::AddNewNode without a dragged pin.
AddNode(app, kind, recipe) ==
    [app |-> CASE kind = "Craft" -> CraftNode(app, Recipes[recipe])
               [] kind = "Merger" -> MergerNode(app)
               [] kind = "CustomSplitter" -> CustomSplitterNode(app)
               [] kind = "GameSplitter" -> GameSplitterNode(app)
               [] OTHER -> SinkNode(app),
     solves |-> <<>>]

\* The editor after construction: nothing on the canvas.
EmptyApp == [nodes |-> <<>>, pins |-> <<>>, links |-> <<>>, next_id |-> 1, locking |-> <<>>]

(***************************************************************************)
(* Right click on a node (App::CustomKeyControl, app.cpp 3259-3279)        *)
(***************************************************************************)
ToggleNodeLock(app, n) ==
    LET node == app.nodes[n]
        is_locked == \/ Len(node.ins) > 0 /\ app.pins[node.ins[1]].locked
                     \/ Len(node.outs) > 0 /\ app.pins[node.outs[1]].locked
        Lock(a, q) == SetLocked(a, q, ~is_locked)
    IN  [app |-> FoldSeq(Lock, app, node.ins \o node.outs), solves |-> <<>>]

(***************************************************************************)
(* The editor as a state machine.  An operation of the user is a command;  *)
(* a session is the sequence of the commands done since the editor opened. *)
(***************************************************************************)
VARIABLES nodes, pins, links, next_id,  \* the graph
          history,                      \* the commands of the session so far
          solves,                       \* the UpdateNodesRate calls of the last command
          before,                       \* the graph before the last command
          free,                         \* commands done outside the sessions below
          input, output                 \* argument and result of a function called on its own;
                                        \* output is also the Pin::SetLocked calls of the last
                                        \* command on the locks

vars == <<nodes, pins, links, next_id, history, solves, before, free, input, output>>

App == [nodes |-> nodes, pins |-> pins, links |-> links, next_id |-> next_id,
        locking |-> <<>>]

Cmd(op, a, b, value) ==
    [op |-> op, kind |-> "", recipe |-> "", a |-> a, b |-> b, value |-> value]

AddNodeCmd(kind, recipe) ==
    [op |-> "AddNode", kind |-> kind, recipe |-> recipe, a |-> 0, b |-> 0, value |-> Zero]

Rate(n) == FractionalNumber(n, 1)

\* Scenario A of the specification: a Craft node scaled from its output.
CraftSession ==
    << AddNodeCmd("Craft", "smelt"),
       Cmd("EditPinRate", 3, 0, Rate(3)),
       Cmd("EditNodeRate", 1, 0, Rate(2)) >>

\* Scenarios B and C: a Merger with two inputs rebalanced, then resized.
MergerSession ==
    << AddNodeCmd("Merger", ""),
       Cmd("RemovePin", 1, 3, Zero),
       Cmd("EditPinRate", 2, 0, Rate(2)),
       Cmd("EditPinRate", 3, 0, Rate(3)),
       Cmd("EditPinRate", 5, 0, Rate(10)),
       Cmd("RemovePin", 1, 2, Zero) >>

\* A Merger with a locked input, rebalanced from its output.
LockedShareSession ==
    << AddNodeCmd("Merger", ""),
       Cmd("EditPinRate", 2, 0, Rate(2)),
       Cmd("EditPinRate", 3, 0, Rate(3)),
       Cmd("ToggleLock", 2, 0, Zero),
       Cmd("EditPinRate", 5, 0, Rate(10)) >>

\* Scenario D: a CustomSplitter output feeding the splitter's own input
\* through a Craft node.
LoopSession ==
    << AddNodeCmd("CustomSplitter", ""),
       AddNodeCmd("Craft", "smelt"),
       Cmd("DragLink", 3, 7, Zero),
       Cmd("DragLink", 8, 2, Zero),
       Cmd("EditPinRate", 3, 0, Rate(2)) >>

\* A Merger fed by two Craft nodes, its output locked.
SiblingSession ==
    << AddNodeCmd("Merger", ""),
       AddNodeCmd("Craft", "smelt"),
       AddNodeCmd("Craft", "smelt"),
       Cmd("RemovePin", 1, 3, Zero),
       Cmd("DragLink", 8, 2, Zero),
       Cmd("DragLink", 11, 3, Zero),
       Cmd("EditPinRate", 8, 0, Rate(2)),
       Cmd("EditPinRate", 11, 0, Rate(3)),
       Cmd("ToggleLock", 5, 0, Zero),
       Cmd("EditPinRate", 8, 0, Rate(3)) >>

\* A Merger and a CustomSplitter feeding each other.
OrganizerLoopSession ==
    << AddNodeCmd("Merger", ""),
       AddNodeCmd("CustomSplitter", ""),
       Cmd("DragLink", 5, 7, Zero),
       Cmd("DragLink", 8, 2, Zero),
       Cmd("RemovePin", 6, 3, Zero) >>

\* A GameSplitter feeding a Craft node, then locked and given one more
\* output.
GameSplitterSession ==
    << AddNodeCmd("GameSplitter", ""),
       AddNodeCmd("Craft", "smelt"),
       Cmd("DragLink", 3, 7, Zero),
       Cmd("EditPinRate", 2, 0, Rate(3)),
       Cmd("ToggleLock", 2, 0, Zero),
       Cmd("AddPin", 1, 0, Zero) >>

\* A Craft output dragged onto a locked input of a Merger.
LockedPullSession ==
    << AddNodeCmd("Merger", ""),
       AddNodeCmd("Craft", "smelt"),
       Cmd("EditPinRate", 8, 0, Rate(3)),
       Cmd("ToggleLock", 2, 0, Zero),
       Cmd("DragLink", 2, 8, Zero) >>

\* A Craft node fed by a CustomSplitter, its output dragged back onto the
\* input of the splitter once rates are set.
FeedbackSession ==
    << AddNodeCmd("CustomSplitter", ""),
       AddNodeCmd("Craft", "smelt"),
       Cmd("DragLink", 3, 7, Zero),
       Cmd("EditPinRate", 7, 0, Rate(2)),
       Cmd("DragLink", 8, 2, Zero) >>

\* A Merger and a CustomSplitter with rates, feeding each other; then the
\* splitter loses an output.
SplitterLoopSession ==
    << AddNodeCmd("Merger", ""),
       AddNodeCmd("CustomSplitter", ""),
       Cmd("EditPinRate", 2, 0, Rate(2)),
       Cmd("EditPinRate", 3, 0, Rate(3)),
       Cmd("EditPinRate", 8, 0, Rate(2)),
       Cmd("EditPinRate", 9, 0, Rate(3)),
       Cmd("DragLink", 5, 7, Zero),
       Cmd("DragLink", 8, 2, Zero),
       Cmd("RemovePin", 6, 2, Zero) >>

\* The same loop; the Merger loses an input.
MergerLoopSession ==
    SubSeq(SplitterLoopSession, 1, 8) \o << Cmd("RemovePin", 1, 2, Zero) >>

\* A Craft node feeding a Sink, then disconnected.
SinkSession ==
    << AddNodeCmd("Craft", "smelt"),
       AddNodeCmd("Sink", ""),
       Cmd("EditPinRate", 3, 0, Rate(3)),
       Cmd("DragLink", 3, 5, Zero),
       Cmd("DeleteLink", 6, 0, Zero) >>

\* The locked output of a Merger dragged onto the input of a Craft node.
LockedOutputSession ==
    << AddNodeCmd("Merger", ""),
       AddNodeCmd("Craft", "smelt"),
       Cmd("EditPinRate", 8, 0, Rate(3)),
       Cmd("ToggleLock", 5, 0, Zero),
       Cmd("DragLink", 5, 7, Zero) >>

\* A Sink with two inputs, each given a rate.
SinkSiblingSession ==
    << AddNodeCmd("Sink", ""),
       Cmd("AddPin", 1, 0, Zero),
       Cmd("EditPinRate", 2, 0, Rate(3)),
       Cmd("EditPinRate", 3, 0, Rate(2)) >>

\* A GameSplitter feeding two inputs of a Merger whose output is locked.
SharedSourceSession ==
    << AddNodeCmd("GameSplitter", ""),
       AddNodeCmd("Merger", ""),
       Cmd("DragLink", 3, 7, Zero),
       Cmd("DragLink", 4, 8, Zero),
       Cmd("ToggleLock", 10, 0, Zero),
       Cmd("EditPinRate", 2, 0, Rate(3)) >>

\* A Sink whose input has a rate, dragged to an output of a CustomSplitter
\* that a locked Craft feeds with less.
SinkPullSession ==
    << AddNodeCmd("Craft", "smelt"), AddNodeCmd("CustomSplitter", ""), AddNodeCmd("Sink", ""),
       Cmd("EditPinRate", 3, 0, Rate(3)), Cmd("ToggleLock", 3, 0, Zero),
       Cmd("DragLink", 3, 5, Zero), Cmd("EditPinRate", 10, 0, Rate(10)),
       Cmd("DragLink", 10, 6, Zero) >>

Sessions == {CraftSession, MergerSession, LockedShareSession, LoopSession, SiblingSession,
             OrganizerLoopSession, GameSplitterSession, LockedPullSession,
             FeedbackSession, SplitterLoopSession, MergerLoopSession, SinkSession,
             LockedOutputSession, SinkSiblingSession,
             SharedSourceSession, SinkPullSession}

\* Commands the user may add to a session.
MaxSteps == 1
\* Sizes of the canvas.
MaxNodes == 4
MaxPins == 4
\* The rates the user types.
EditValues == {Rate(0), Rate(2), Rate(3), Rate(10)}
NodeKinds == {<<"Craft", "smelt">>, <<"Craft", "refine">>, <<"Merger", "">>,
              <<"CustomSplitter", "">>, <<"GameSplitter", "">>, <<"Sink", "">>}

OnSession(cmd) ==
    \E s \in Sessions :
        /\ Len(s) > Len(history)
        /\ SubSeq(s, 1, Len(history) + 1) = Append(history, cmd)

Commit(cmd, result) ==
    /\ OnSession(cmd) \/ free < MaxSteps
    /\ nodes' = result.app.nodes
    /\ pins' = result.app.pins
    /\ links' = result.app.links
    /\ next_id' = result.app.next_id
    /\ history' = Append(history, cmd)
    /\ solves' = result.solves
    /\ before' = App
    /\ free' = IF OnSession(cmd) THEN free ELSE free + 1
    /\ UNCHANGED <<input, output>>

Init ==
    /\ nodes = EmptyApp.nodes
    /\ pins = EmptyApp.pins
    /\ links = EmptyApp.links
    /\ next_id = EmptyApp.next_id
    /\ history = <<>>
    /\ solves = <<>>
    /\ before = EmptyApp
    /\ free = 0
    /\ input = <<>>
    /\ output = <<>>

UserAddNode ==
    \E k \in NodeKinds :
        /\ Cardinality(DOMAIN nodes) < MaxNodes
        /\ Commit(AddNodeCmd(k[1], k[2]), AddNode(App, k[1], k[2]))

UserDragLink ==
    \E start_pin \in DOMAIN pins, end_pin \in DOMAIN pins :
        Commit(Cmd("DragLink", start_pin, end_pin, Zero), DragLink(App, start_pin, end_pin))

UserDeleteLink ==
    \E id \in DOMAIN links :
        Commit(Cmd("DeleteLink", id, 0, Zero), [app |-> DeleteLink(App, id), solves |-> <<>>])

\* The field of a locked pin is disabled.
UserEditPinRate ==
    \E p \in DOMAIN pins, value \in EditValues :
        /\ ~pins[p].locked
        /\ Commit(Cmd("EditPinRate", p, 0, value), EditPinRate(App, p, value))

\* The field of a node with a locked first pin is disabled.
UserEditNodeRate ==
    \E n \in DOMAIN nodes, value \in EditValues :
        /\ IsPowered(nodes[n].kind)
        /\ ~(\/ Len(nodes[n].ins) > 0 /\ pins[nodes[n].ins[1]].locked
             \/ Len(nodes[n].outs) > 0 /\ pins[nodes[n].outs[1]].locked)
        /\ Commit(Cmd("EditNodeRate", n, 0, value), EditNodeRate(App, n, value))

UserAddPin ==
    \E n \in DOMAIN nodes :
        /\ nodes[n].kind \in {"Merger", "Sink", "CustomSplitter", "GameSplitter"}
        /\ Len(RemovablePins(nodes[n])) < MaxPins
        /\ Commit(Cmd("AddPin", n, 0, Zero), AddPin(App, n))

\* The "x" button of the last pin of its side is disabled.
UserRemovePin ==
    \E n \in DOMAIN nodes :
        \E idx \in DOMAIN RemovablePins(nodes[n]) :
            /\ Len(RemovablePins(nodes[n])) > 1
            /\ Commit(Cmd("RemovePin", n, idx, Zero), RemovePin(App, n, idx))

UserToggleLock ==
    \E p \in DOMAIN pins :
        Commit(Cmd("ToggleLock", p, 0, Zero), ToggleLock(App, p))

UserToggleNodeLock ==
    \E n \in DOMAIN nodes :
        Commit(Cmd("ToggleNodeLock", n, 0, Zero), ToggleNodeLock(App, n))

\* The Delete key on a selected node (App::DeleteNodesLinks).
UserDeleteNode ==
    \E n \in DOMAIN nodes :
        Commit(Cmd("DeleteNode", n, 0, Zero), [app |-> DeleteNode(App, n), solves |-> <<>>])

\* A frame drawn without any input of the user.
Frame ==
    Commit(Cmd("Frame", 0, 0, Zero), RenderLinks(App))

Next ==
    \/ UserAddNode
    \/ UserDragLink
    \/ UserDeleteLink
    \/ UserEditPinRate
    \/ UserEditNodeRate
    \/ UserAddPin
    \/ UserRemovePin
    \/ UserToggleLock
    \/ UserToggleNodeLock
    \/ UserDeleteNode
    \/ Frame

Spec == Init /\ [][Next]_vars


(***************************************************************************)
(* The lock state on its own: graphs built with every rate zero, then any  *)
(* sequence of lock toggles, link creations and deletions, pin additions   *)
(* and removals.                                                           *)
(***************************************************************************)
\* What a command does to a graph.
Apply(app, cmd) ==
    CASE cmd.op = "AddNode" -> AddNode(app, cmd.kind, cmd.recipe)
      [] cmd.op = "DragLink" -> DragLink(app, cmd.a, cmd.b)
      [] cmd.op = "DeleteLink" -> [app |-> DeleteLink(app, cmd.a), solves |-> <<>>]
      [] cmd.op = "AddPin" -> AddPin(app, cmd.a)
      [] cmd.op = "RemovePin" -> RemovePin(app, cmd.a, cmd.b)
      [] cmd.op = "ToggleLock" -> ToggleLock(app, cmd.a)
      [] cmd.op = "ToggleNodeLock" -> ToggleNodeLock(app, cmd.a)
      [] OTHER -> [app |-> app, solves |-> <<>>]

\* A Merger whose output feeds a Craft node that feeds the Merger.
MergerLoopGraph ==
    << AddNodeCmd("Merger", ""), AddNodeCmd("Craft", "smelt"),
       Cmd("DragLink", 5, 7, Zero), Cmd("DragLink", 8, 2, Zero) >>

\* A CustomSplitter feeding a Merger through two of its outputs.
SplitterMergerGraph ==
    << AddNodeCmd("CustomSplitter", ""), AddNodeCmd("Merger", ""),
       Cmd("DragLink", 3, 7, Zero), Cmd("DragLink", 4, 8, Zero) >>

\* A GameSplitter feeding a Craft node and a Sink.
GameSplitterGraph ==
    << AddNodeCmd("GameSplitter", ""), AddNodeCmd("Craft", "smelt"),
       AddNodeCmd("Sink", ""), Cmd("DragLink", 3, 7, Zero), Cmd("DragLink", 4, 10, Zero) >>

LockGraphs == {MergerLoopGraph, SplitterMergerGraph, GameSplitterGraph}

\* Commands done on a graph, and the pin ids handed out.
MaxLockSteps == 4
MaxId == 16

\* The graph is built: every command of one of the graphs is done.
Built == free > 0 \/ history \in LockGraphs

LockCommitted(cmd, result) ==
    /\ Built
    /\ free < MaxLockSteps
    /\ nodes' = result.app.nodes
    /\ pins' = result.app.pins
    /\ links' = result.app.links
    /\ next_id' = result.app.next_id
    /\ history' = <<cmd>>
    /\ solves' = result.solves
    /\ before' = App
    /\ free' = free + 1
    /\ output' = result.app.locking
    /\ UNCHANGED input

LockBuilt(cmd, result) ==
    /\ nodes' = result.app.nodes
    /\ pins' = result.app.pins
    /\ links' = result.app.links
    /\ next_id' = result.app.next_id
    /\ history' = Append(history, cmd)
    /\ solves' = result.solves
    /\ before' = App
    /\ UNCHANGED <<free, input, output>>

LockInit ==
    /\ nodes = EmptyApp.nodes
    /\ pins = EmptyApp.pins
    /\ links = EmptyApp.links
    /\ next_id = EmptyApp.next_id
    /\ history = <<>>
    /\ solves = <<>>
    /\ before = EmptyApp
    /\ free = 0
    /\ input = <<>>
    /\ output = <<>>

\* The next command of a graph that is not built yet.
LockBuild ==
    \E g \in LockGraphs :
        /\ free = 0
        /\ Len(history) < Len(g)
        /\ SubSeq(g, 1, Len(history)) = history
        /\ LockBuilt(g[Len(history) + 1], Apply(App, g[Len(history) + 1]))

LockToggle ==
    \E p \in DOMAIN pins :
        LockCommitted(Cmd("ToggleLock", p, 0, Zero), ToggleLock(App, p))

LockToggleNode ==
    \E n \in DOMAIN nodes :
        LockCommitted(Cmd("ToggleNodeLock", n, 0, Zero), ToggleNodeLock(App, n))

LockDragLink ==
    \E start_pin \in DOMAIN pins, end_pin \in DOMAIN pins :
        /\ DragLinkAccepted(App, start_pin, end_pin)
        /\ LockCommitted(Cmd("DragLink", start_pin, end_pin, Zero),
                         DragLink(App, start_pin, end_pin))

LockDeleteLink ==
    \E id \in DOMAIN links :
        LockCommitted(Cmd("DeleteLink", id, 0, Zero),
                      [app |-> DeleteLink(App, id), solves |-> <<>>])

LockAddPin ==
    \E n \in DOMAIN nodes :
        /\ nodes[n].kind \in {"Merger", "Sink", "CustomSplitter", "GameSplitter"}
        /\ Len(RemovablePins(nodes[n])) < MaxPins
        /\ next_id < MaxId
        /\ LockCommitted(Cmd("AddPin", n, 0, Zero), AddPin(App, n))

LockRemovePin ==
    \E n \in DOMAIN nodes :
        \E idx \in DOMAIN RemovablePins(nodes[n]) :
            /\ Len(RemovablePins(nodes[n])) > 1
            /\ LockCommitted(Cmd("RemovePin", n, idx, Zero), RemovePin(App, n, idx))

LockNext ==
    \/ LockBuild
    \/ LockToggle
    \/ LockToggleNode
    \/ LockDragLink
    \/ LockDeleteLink
    \/ LockAddPin
    \/ LockRemovePin

LockSpec == LockInit /\ [][LockNext]_vars

(***************************************************************************)
(* The linear solver of App::UpdateNodesRate on its own: an augmented      *)
(* matrix with at least as many equations as variables is eliminated and   *)
(* solved.                                                                 *)
(***************************************************************************)
\* Sizes and entries of the matrices.
MaxVariables == 2
MaxEquations == 3
Entries == {-1, 0, 1, 2}

\* The matrix of FractionalNumber the equations are copied into.
FractionMatrix(rows) ==
    Eager([i \in DOMAIN rows |-> Eager([j \in DOMAIN rows[i] |-> FractionalNumber(rows[i][j], 1)])])

\* What follows the elimination: failure, or the back substitution
\* (app.cpp 986-1020).
Solved(ge, num_equations, num_variables) ==
    IF NoSolution(ge.matrix, ge.h, num_equations, num_variables)
    THEN [solved |-> FALSE, solution |-> <<>>]
    ELSE [solved |-> TRUE,
          solution |-> BackSubstitution(ge.matrix,
                           Eager([i \in 0..(num_variables - 1) |-> Zero]),
                           num_variables - 1, num_variables)]

\* Elimination and back substitution (app.cpp 937-1020).
SolveMatrix(matrix, num_equations, num_variables) ==
    Solved(GaussianElimination(matrix, 0, 0, num_equations, num_variables),
           num_equations, num_variables)

GaussInit ==
    /\ \E num_variables \in 1..MaxVariables :
          \E num_equations \in num_variables..MaxEquations :
              input \in [1..num_equations -> [1..(num_variables + 1) -> Entries]]
    /\ output = <<>>
    /\ nodes = EmptyApp.nodes
    /\ pins = EmptyApp.pins
    /\ links = EmptyApp.links
    /\ next_id = EmptyApp.next_id
    /\ history = <<>>
    /\ solves = <<>>
    /\ before = EmptyApp
    /\ free = 0

SolveSystem ==
    /\ output = <<>>
    /\ output' = SolveMatrix(FractionMatrix(input), Len(input), Len(input[1]) - 1)
    /\ UNCHANGED <<nodes, pins, links, next_id, history, solves, before, free, input>>

GaussNext == SolveSystem

GaussSpec == GaussInit /\ [][GaussNext]_vars

(***************************************************************************)
(* FractionalNumber on its own: construction, arithmetic on two numbers in *)
(* normal form, construction from a string, and the string of a number     *)
(* read back.                                                              *)
(***************************************************************************)
\* Sizes of the numbers and of the strings.
MaxNumerator == 3
MaxDenominator == 3
MaxLen == 5
Alphabet == {"0", "1", "2", "3", ".", "/", "+", "-", "(", ")", "a"}

\* FractionalNumber(n, d) as the build runs it.  With n = 0 and d = 0
\* Simplify divides by zero, which is undefined: the division traps, or
\* yields 0 where the processor does not trap.
Construct(n, d) ==
    IF n = 0 /\ d = 0
    THEN {Thrown("SIGFPE"), Value([numerator |-> 0, denominator |-> 0])}
    ELSE {Value(FractionalNumber(n, d))}

\* The four operators on two numbers (fractional_number.cpp 317-335).
Arithmetic(op, lhs, rhs) ==
    CASE op = "+" -> {Value(Add(lhs, rhs))}
      [] op = "-" -> {Value(Sub(lhs, rhs))}
      [] op = "*" -> {Value(Mul(lhs, rhs))}
      [] op = "/" -> Construct(lhs.numerator * rhs.denominator,
                               lhs.denominator * rhs.numerator)

\* Numbers in normal form.
Fractions ==
    {FractionalNumber(n, d) : n \in (-MaxNumerator)..MaxNumerator, d \in 1..MaxDenominator}

\* The width w of the integers of a number held in w bits, and their range.
Width == 4
MinInt == -(2 ^ (Width - 1))
MaxInt == 2 ^ (Width - 1) - 1
Representable(x) == MinInt <= x /\ x <= MaxInt

\* The w-bit integer a result x wraps to.
Wrap(x) == ((x - MinInt) % (2 ^ Width)) + MinInt

\* Numbers in normal form whose two members fit in w bits.
FixedFractions ==
    {f \in {[numerator |-> n, denominator |-> d] : n \in MinInt..MaxInt, d \in 1..MaxInt} :
        Simplify(f.numerator, f.denominator) = f}

\* The products, the sum and the difference that an operator computes before
\* it simplifies (fractional_number.cpp 260-261, 268-269, 276-277, 334).
Intermediates(op, lhs, rhs) ==
    CASE op = "+" -> {lhs.numerator * rhs.denominator, rhs.numerator * lhs.denominator,
                      lhs.numerator * rhs.denominator + rhs.numerator * lhs.denominator,
                      lhs.denominator * rhs.denominator}
      [] op = "-" -> {lhs.numerator * rhs.denominator, rhs.numerator * lhs.denominator,
                      lhs.numerator * rhs.denominator - rhs.numerator * lhs.denominator,
                      lhs.denominator * rhs.denominator}
      [] op = "*" -> {lhs.numerator * rhs.numerator, lhs.denominator * rhs.denominator}
      [] op = "/" -> {lhs.numerator * rhs.denominator, lhs.denominator * rhs.numerator}

\* The numerator and the denominator an operator hands to Simplify.
Unreduced(op, lhs, rhs) ==
    CASE op = "+" -> <<lhs.numerator * rhs.denominator + rhs.numerator * lhs.denominator,
                       lhs.denominator * rhs.denominator>>
      [] op = "-" -> <<lhs.numerator * rhs.denominator - rhs.numerator * lhs.denominator,
                       lhs.denominator * rhs.denominator>>
      [] op = "*" -> <<lhs.numerator * rhs.numerator, lhs.denominator * rhs.denominator>>
      [] op = "/" -> <<lhs.numerator * rhs.denominator, lhs.denominator * rhs.numerator>>

\* Simplify on two w-bit members: a gcd of zero divides by zero, and the two
\* quotients are w-bit integers again.
FixedSimplify(n, d) ==
    IF n = 0 /\ d = 0
    THEN {Thrown("SIGFPE"), Value([numerator |-> 0, denominator |-> 0])}
    ELSE {Value([numerator |-> Wrap(Simplify(n, d).numerator),
                 denominator |-> Wrap(Simplify(n, d).denominator)])}

\* The four operators on w-bit members.  No operator tests the size of what
\* it computes: a product, sum or difference out of the range is a signed
\* overflow, undefined, which wraps or traps according to the build.
FixedArithmetic(op, lhs, rhs) ==
    LET unreduced == Unreduced(op, lhs, rhs)
    IN  IF \A x \in Intermediates(op, lhs, rhs) : Representable(x)
        THEN FixedSimplify(unreduced[1], unreduced[2])
        ELSE FixedSimplify(Wrap(unreduced[1]), Wrap(unreduced[2])) \cup {Thrown("SIGABRT")}

FractionInit ==
    /\ \/ input \in [op : {"+", "-", "*", "/"}, lhs : Fractions, rhs : Fractions]
       \/ input \in [op : {"new", "format"}, n : (-MaxNumerator)..MaxNumerator,
                     d : (-MaxDenominator)..MaxDenominator]
       \/ \E k \in 0..MaxLen : \E s \in [1..k -> Alphabet] :
             input = [op |-> "parse", s |-> s]
       \/ input \in [op : {"fixed"}, operator : {"+", "-", "*", "/"},
                     lhs : FixedFractions, rhs : FixedFractions]
    /\ output = <<>>
    /\ nodes = EmptyApp.nodes
    /\ pins = EmptyApp.pins
    /\ links = EmptyApp.links
    /\ next_id = EmptyApp.next_id
    /\ history = <<>>
    /\ solves = <<>>
    /\ before = EmptyApp
    /\ free = 0

\* operator+, operator-, operator* or operator/.
Operate ==
    /\ output = <<>>
    /\ input.op \in {"+", "-", "*", "/"}
    /\ output' \in Arithmetic(input.op, input.lhs, input.rhs)
    /\ UNCHANGED <<nodes, pins, links, next_id, history, solves, before, free, input>>

\* operator+, operator-, operator* or operator/ on w-bit members.
OperateFixed ==
    /\ output = <<>>
    /\ input.op = "fixed"
    /\ output' \in FixedArithmetic(input.operator, input.lhs, input.rhs)
    /\ UNCHANGED <<nodes, pins, links, next_id, history, solves, before, free, input>>

\* FractionalNumber(n, d).
New ==
    /\ output = <<>>
    /\ input.op = "new"
    /\ output' \in Construct(input.n, input.d)
    /\ UNCHANGED <<nodes, pins, links, next_id, history, solves, before, free, input>>

\* FractionalNumber(s).
Parse ==
    /\ output = <<>>
    /\ input.op = "parse"
    /\ output' = FromString(input.s)
    /\ UNCHANGED <<nodes, pins, links, next_id, history, solves, before, free, input>>

\* FractionalNumber(FractionalNumber(n, d).GetStringFraction()).
Format ==
    /\ output = <<>>
    /\ input.op = "format"
    /\ input.d # 0
    /\ output' = FromString(GetStringFraction(FractionalNumber(input.n, input.d)))
    /\ UNCHANGED <<nodes, pins, links, next_id, history, solves, before, free, input>>

FractionNext ==
    \/ Operate
    \/ OperateFixed
    \/ New
    \/ Parse
    \/ Format

FractionSpec == FractionInit /\ [][FractionNext]_vars

(***************************************************************************)
(* Properties of the solver and of the operations that call it            *)
(***************************************************************************)
\* The last command of the session.
LastCmd == history[Len(history)]

\* The calls of UpdateNodesRate of the last command as a set.
Calls == {solves[i] : i \in DOMAIN solves}

\* The two ends of every link carry the same rate.
Balanced(app) ==
    \A l \in DOMAIN app.links :
        app.pins[app.links[l].start].current_rate = app.pins[app.links[l].end].current_rate

\* Graph b gives every pin that is in both graphs the rate it has in a.
SamePinRates(a, b) ==
    \A q \in DOMAIN a.pins \cap DOMAIN b.pins :
        a.pins[q].current_rate = b.pins[q].current_rate

\* Graph b gives every node that is in both graphs the rate it has in a.
SameNodeRates(a, b) ==
    \A n \in DOMAIN a.nodes \cap DOMAIN b.nodes :
        a.nodes[n].current_rate = b.nodes[n].current_rate

\* A call that returned false or raised the not-enough-equations error.
Failed(solve) == solve.outcome \in {"false", "Not enough equations"}

\* The node of a pin in a graph.
NodeOf(app, q) == app.nodes[app.pins[q].node]

\* The same call made again on the graph the call left.
Repeated(solve) == UpdateNodesRate(solve.post, solve.pin, solve.value)

\* A second call that succeeds, changes no rate and leaves no flow.
ChangesNothing(solve, again) ==
    /\ Succeeded(again)
    /\ SamePinRates(solve.post, again.post)
    /\ SameNodeRates(solve.post, again.post)
    /\ \A l \in DOMAIN again.post.links : again.post.links[l].flow = "none"

\* The call has the single pin of a Merger / CustomSplitter as constraint
\* pin and none of the multi pins of the node is updated through its link.
SinglePinCall(solve) ==
    /\ NodeOf(solve.pre, solve.pin).kind \in {"Merger", "CustomSplitter"}
    /\ IsSinglePin(solve.pre, solve.pin)
    /\ SeqToSet(MultiPin(NodeOf(solve.pre, solve.pin)))
            \cap solve.report.multi_pin_constrained = {}

UnlockedMulti(app, node) == SelectSeq(MultiPin(node), LAMBDA q : ~app.pins[q].locked)
LockedMulti(app, node) == SelectSeq(MultiPin(node), LAMBDA q : app.pins[q].locked)

\* share_i of the unlocked multi pin q.
ShareOf(app, node, q) ==
    IF SumOfRates(app, UnlockedMulti(app, node)) = Zero
    THEN FractionalNumber(1, Len(UnlockedMulti(app, node)))
    ELSE Div(app.pins[q].current_rate, SumOfRates(app, UnlockedMulti(app, node)))

\* The rate a multi pin is to have once the single pin is edited to value.
SharedRate(app, node, q, value) ==
    IF app.pins[q].locked THEN app.pins[q].current_rate
    ELSE Mul(ShareOf(app, node, q), Sub(value, SumOfRates(app, LockedMulti(app, node))))

\* The fixed coefficient of a pin of a Craft, Group or GameSplitter node.
Coefficient(app, q) ==
    LET node == NodeOf(app, q)
    IN  IF node.kind = "GameSplitter"
        THEN IF app.pins[q].direction = "Input" THEN One
             ELSE FractionalNumber(1, Len(node.outs))
        ELSE IF node.kind = "Craft" /\ app.pins[q].direction = "Output"
        THEN CraftOutRatio(node, app.pins[q])
        ELSE app.pins[q].base_rate

\* The single value of a Craft, Group or GameSplitter node.
NodeValue(app, n) ==
    IF app.nodes[n].kind = "GameSplitter" THEN app.pins[app.nodes[n].ins[1]].current_rate
    ELSE app.nodes[n].current_rate

\* The pins of the Craft, Group and GameSplitter nodes a call reached.
ReachedPins(solve) ==
    {q \in DOMAIN solve.post.pins :
        /\ NodeOf(solve.post, q).kind \in {"Craft", "Group", "GameSplitter"}
        /\ q \in DOMAIN solve.report.associated_variable_index}

\* A CustomSplitter output reaches the input of that splitter through a
\* Craft node.
FeedbackLoop(app) ==
    \E l1 \in DOMAIN app.links, l2 \in DOMAIN app.links :
        /\ NodeOf(app, app.links[l1].start).kind = "CustomSplitter"
        /\ NodeOf(app, app.links[l1].end).kind = "Craft"
        /\ app.pins[app.links[l2].start].node = app.pins[app.links[l1].end].node
        /\ app.pins[app.links[l2].end].node = app.pins[app.links[l1].start].node

\* C1: a call of UpdateNodesRate that starts with every link balanced and
\* returns true leaves every link balanced.
C1_LinksStayBalanced ==
    \A s \in Calls : (Balanced(s.pre) /\ Succeeded(s)) => Balanced(s.post)

\* C2: after a pin rate edit, a node rate edit, a link creation or the
\* removal of a Merger / CustomSplitter pin whose call of UpdateNodesRate
\* failed, every pin left and every node has the rate it had before the
\* operation.
C2_FailedSolveRestores ==
    (/\ Len(history) > 0
     /\ \/ LastCmd.op \in {"EditPinRate", "EditNodeRate", "DragLink"}
        \/ LastCmd.op = "RemovePin" /\ nodes[LastCmd.a].kind \in {"Merger", "CustomSplitter"}
     /\ \E s \in Calls : Failed(s))
    => SamePinRates(before, App) /\ SameNodeRates(before, App)

\* C3: a call that returns true leaves the rate of every pin that was locked
\* when it started.
C3_LockedPinsKept ==
    \A s \in Calls :
        Succeeded(s) =>
            \A q \in DOMAIN s.pre.pins :
                s.pre.pins[q].locked =>
                    s.post.pins[q].current_rate = s.pre.pins[q].current_rate

\* C4: every call builds at least as many equations as variables and never
\* raises "Not enough equations".
C4_EnoughEquations ==
    \A s \in Calls :
        /\ s.report.num_equations >= s.report.num_variables
        /\ s.outcome # "Not enough equations"

\* C5: both queue loops of every call end: the first pass pops at most two
\* pins more than the graph has, the second at most one pin more than the
\* graph has links, feedback loops included.
C5_PassesTerminate ==
    \A s \in Calls :
        /\ s.outcome # "diverged"
        /\ s.report.first_iterations <= Cardinality(DOMAIN s.pre.pins) + 2
        /\ s.report.second_iterations <= Cardinality(DOMAIN s.pre.links) + 1

\* A call on a graph with a feedback loop went round the loop and came back.
C5_LoopTraversed ==
    \E s \in Calls :
        /\ FeedbackLoop(s.pre)
        /\ s.report.first_iterations > 2
        /\ s.report.second_iterations > 2

\* C6: a call that returned true, made again with the same pin and value,
\* returns true, changes no rate of a pin or of a node and leaves no flow on
\* a link.
C6_RepeatedSolveChangesNothing ==
    \A s \in Calls : Succeeded(s) => ChangesNothing(s, Repeated(s))

\* C7: after a call that returned true the constraint pin has the
\* constraint value.
C7_ConstraintPinHasValue ==
    \A s \in Calls : Succeeded(s) => s.post.pins[s.pin].current_rate = s.value

\* A call returned true for a constraint pin of a Craft node whose ratio is
\* not one, and changed the rate of the node.
C7_CraftPinConstrained ==
    \E s \in Calls :
        /\ Succeeded(s)
        /\ NodeOf(s.pre, s.pin).kind = "Craft"
        /\ s.report.associated_variable_index[s.pin].second # One
        /\ NodeOf(s.post, s.pin).current_rate # NodeOf(s.pre, s.pin).current_rate

\* C8: after a call that returned true for the single pin of a Merger /
\* CustomSplitter, no multi pin updated through its link, every locked multi
\* pin has its old rate and every unlocked one its share of the value less
\* the locked rates; inputs 2 and 3 with the output edited to 10 become 4
\* and 6.
C8_MultiPinsShareSinglePin ==
    /\ \A s \in Calls :
          (Succeeded(s) /\ SinglePinCall(s)) =>
              \A q \in SeqToSet(MultiPin(NodeOf(s.pre, s.pin))) :
                  s.post.pins[q].current_rate
                      = SharedRate(s.pre, NodeOf(s.pre, s.pin), q, s.value)
    /\ history = SubSeq(MergerSession, 1, 5) =>
          /\ pins[2].current_rate = Rate(4)
          /\ pins[3].current_rate = Rate(6)

\* The single pin of a node with a locked multi pin that carries a rate was
\* edited and an unlocked multi pin took a new rate.
C8_SharedAroundLockedPin ==
    \E s \in Calls :
        /\ Succeeded(s)
        /\ SinglePinCall(s)
        /\ LastCmd.op = "EditPinRate"
        /\ \E q \in SeqToSet(LockedMulti(s.pre, NodeOf(s.pre, s.pin))) :
              s.pre.pins[q].current_rate # Zero
        /\ \E q \in SeqToSet(UnlockedMulti(s.pre, NodeOf(s.pre, s.pin))) :
              /\ s.pre.pins[q].current_rate # Zero
              /\ s.post.pins[q].current_rate # s.pre.pins[q].current_rate

C10_SinglePinIsSumOfRemaining ==
    (/\ Len(history) > 0
     /\ LastCmd.op = "RemovePin"
     /\ nodes[LastCmd.a].kind \in {"Merger", "CustomSplitter"})
    => /\ pins[SinglePin(nodes[LastCmd.a])].current_rate
            = SumOfRates(App, MultiPin(nodes[LastCmd.a]))
       /\ \A q \in SeqToSet(MultiPin(nodes[LastCmd.a])) :
             pins[q].current_rate = before.pins[q].current_rate

\* C11: a pin added to the multi side of a Merger / CustomSplitter has the
\* locked flag the single pin of the node had when the pin was added.
C11_NewPinTakesLockOfSinglePin ==
    (/\ Len(history) > 0
     /\ LastCmd.op = "AddPin"
     /\ nodes[LastCmd.a].kind \in {"Merger", "CustomSplitter"})
    => pins[before.next_id].locked
           = before.pins[SinglePin(before.nodes[LastCmd.a])].locked

\* Every pin of each Craft, Group and GameSplitter node has the same locked
\* flag.
NodeLocksAgree(app) ==
    \A n \in DOMAIN app.nodes :
        app.nodes[n].kind \in {"Craft", "Group", "GameSplitter"} =>
            \A q1, q2 \in SeqToSet(app.nodes[n].ins \o app.nodes[n].outs) :
                app.pins[q1].locked = app.pins[q2].locked

\* The two ends of every link have the same locked flag.
LinkLocksAgree(app) ==
    \A l \in DOMAIN app.links :
        app.pins[app.links[l].start].locked = app.pins[app.links[l].end].locked

\* C12: in every state the pins of each Craft, Group or GameSplitter node
\* have the same locked flag and so have the two ends of every link.
C12_LocksAgree == NodeLocksAgree(App) /\ LinkLocksAgree(App)

\* A Merger / CustomSplitter of the graph has every multi pin locked and its
\* single pin unlocked.
MultiLockedSingleFree(app, n) ==
    /\ app.nodes[n].kind \in {"Merger", "CustomSplitter"}
    /\ \A q \in SeqToSet(MultiPin(app.nodes[n])) : app.pins[q].locked
    /\ ~app.pins[SinglePin(app.nodes[n])].locked

\* C13: in every state no Merger / CustomSplitter has all of its multi pins
\* locked while its single pin is unlocked.
C13_SinglePinLockedWithMultiPins ==
    \A n \in DOMAIN nodes : ~MultiLockedSingleFree(App, n)

\* The last unlocked multi pin of a Merger / CustomSplitter whose single pin
\* was unlocked has been removed, and the single pin is locked.
C13_LastUnlockedPinRemoved ==
    /\ Len(history) > 0
    /\ LastCmd.op = "RemovePin"
    /\ before.nodes[LastCmd.a].kind \in {"Merger", "CustomSplitter"}
    /\ ~before.pins[SinglePin(before.nodes[LastCmd.a])].locked
    /\ ~before.pins[RemovablePins(before.nodes[LastCmd.a])[LastCmd.b]].locked
    /\ \A q \in SeqToSet(MultiPin(nodes[LastCmd.a])) : pins[q].locked
    /\ pins[SinglePin(nodes[LastCmd.a])].locked

\* The last command applied SetLocked(false) to a pin of a Merger /
\* CustomSplitter whose multi pins were all locked.
UnlockedInLockedNode ==
    /\ Len(history) > 0
    /\ LastCmd.op = "ToggleLock"
    /\ NodeOf(before, LastCmd.a).kind \in {"Merger", "CustomSplitter"}
    /\ before.pins[LastCmd.a].locked
    /\ \A q \in SeqToSet(MultiPin(NodeOf(before, LastCmd.a))) : before.pins[q].locked

\* The other multi pins of the node that the unlocking of pin p has reached
\* through the link of p before the node of p is looked at.
ReachedThroughLink(app, p) ==
    {q \in SeqToSet(MultiPin(NodeOf(app, p))) \ {p} :
        ~SetLockedLink([app EXCEPT !.pins[p].locked = FALSE], p, FALSE).pins[q].locked}

ErrorPins(app) == {q \in DOMAIN app.pins : app.pins[q].error}

\* The variables a call solved to a negative value, and their pins.
NegativeVariables(solve) == {i \in DOMAIN solve.solution : Lt(solve.solution[i], Zero)}
NegativePins(solve) ==
    {q \in DOMAIN solve.report.associated_variable_index :
        solve.report.associated_variable_index[q].first \in NegativeVariables(solve)}

\* C15: a call whose solution has a negative variable returns false with
\* exactly the pins of the negative variables in error; any other call
\* returns with no pin in error.
C15_ErrorsAreNegativePins ==
    \A s \in Calls :
        IF NegativeVariables(s) # {}
        THEN s.outcome = "false" /\ ErrorPins(s.post) = NegativePins(s)
        ELSE ErrorPins(s.post) = {}

\* A call found a negative variable; some pins of the call are in error and
\* some are not.
C15_NegativeFound ==
    \E s \in Calls :
        /\ NegativeVariables(s) # {}
        /\ ErrorPins(s.post) # {}
        /\ DOMAIN s.report.associated_variable_index \ ErrorPins(s.post) # {}

\* Numbers 1..n in order.
UpTo(n) == [i \in 1..n |-> i]

RECURSIVE Det(_, _)
\* Determinant of the n x n integer matrix M, expanded along its first row.
Det(M, n) ==
    IF n = 1 THEN M[1][1]
    ELSE LET Minor(j) == [r \in 1..(n - 1) |-> [c \in 1..(n - 1) |->
                            M[r + 1][IF c < j THEN c ELSE c + 1]]]
             AddTerm(acc, j) ==
                acc + (IF j % 2 = 1 THEN 1 ELSE -1) * M[1][j] * Det(Minor(j), n - 1)
         IN  FoldSeq(AddTerm, 0, UpTo(n))

\* The square system made of the rows sel of the equations, and the same
\* with column j replaced by the constants.
SquareOf(rows, sel, n) == [r \in 1..n |-> [c \in 1..n |-> rows[sel[r]][c]]]
SquareWith(rows, sel, n, j) ==
    [r \in 1..n |-> [c \in 1..n |-> IF c = j THEN rows[sel[r]][n + 1] ELSE rows[sel[r]][c]]]

\* Cramer's solution of the rows sel, times the determinant of these rows,
\* satisfies row i of the equations.
CramerSatisfies(rows, sel, n, i) ==
    LET AddTerm(acc, j) == acc + rows[i][j] * Det(SquareWith(rows, sel, n, j), n)
    IN  FoldSeq(AddTerm, 0, UpTo(n)) = rows[i][n + 1] * Det(SquareOf(rows, sel, n), n)

\* The equations have exactly one solution: n of the rows are independent
\* and their solution satisfies every row.
HasUniqueSolution(rows) ==
    LET n == Len(rows[1]) - 1
    IN  \E sel \in [1..n -> DOMAIN rows] :
            /\ \A r \in 1..(n - 1) : sel[r] < sel[r + 1]
            /\ Det(SquareOf(rows, sel, n), n) # 0
            /\ \A i \in DOMAIN rows : CramerSatisfies(rows, sel, n, i)

\* Product of the denominators of the solution, the one of variable j left
\* out when j is not 0.
DenominatorsBut(solution, n, j) ==
    LET MulDen(acc, k) == IF k = j THEN acc ELSE acc * solution[k - 1].denominator
    IN  FoldSeq(MulDen, 1, UpTo(n))

\* The solution satisfies row i of the equations.
Satisfies(rows, solution, i) ==
    LET n == Len(rows[1]) - 1
        AddTerm(acc, j) ==
            acc + rows[i][j] * solution[j - 1].numerator * DenominatorsBut(solution, n, j)
    IN  FoldSeq(AddTerm, 0, UpTo(n)) = rows[i][n + 1] * DenominatorsBut(solution, n, 0)

\* C16: on a matrix with at least as many equations as variables the
\* elimination and back substitution yield a solution exactly when the
\* equations have one solution and no other, the solution then satisfies
\* every equation, and in every other case the solve fails.
C16_SolvedIffUniqueSolution ==
    output # <<>> =>
        /\ output.solved <=> HasUniqueSolution(input)
        /\ output.solved => \A i \in DOMAIN input : Satisfies(input, output.solution, i)

\* More equations than variables were solved to a solution that is not made
\* of whole numbers.
C16_OverdeterminedSolved ==
    /\ output # <<>>
    /\ output.solved
    /\ Len(input) > Len(input[1]) - 1
    /\ Len(input[1]) - 1 > 1
    /\ \E j \in DOMAIN output.solution : output.solution[j].denominator # 1

\* Normal form: a positive denominator, no common factor, zero as 0/1.
NormalForm(f) ==
    /\ f.denominator > 0
    /\ Gcd(Abs(f.numerator), f.denominator) = 1
    /\ f.numerator = 0 => f.denominator = 1

\* The call threw an exception (a trap of the processor is none).
Rejected(result) == result.error \notin {"", "SIGFPE"}

\* C17: the result of +, -, * or / on two numbers in normal form is in
\* normal form, division by a number whose numerator is 0 included.
C17_ArithmeticKeepsNormalForm ==
    (output # <<>> /\ input.op \in {"+", "-", "*", "/"}) =>
        output.error = "" /\ NormalForm(output.value)

\* One or more digits.
IsInt(chars) == chars # <<>> /\ \A i \in DOMAIN chars : IsDigit(chars[i])

\* int[.digits]
IsNumber(chars) ==
    \/ IsInt(chars)
    \/ \E k \in DOMAIN chars :
          /\ chars[k] = "."
          /\ IsInt(SubSeq(chars, 1, k - 1))
          /\ IsInt(SubSeq(chars, k + 1, Len(chars)))

\* The places of a "/" that cuts the string in two numbers.
Cuts(s) ==
    {k \in DOMAIN s : /\ s[k] = "/"
                      /\ IsNumber(SubSeq(s, 1, k - 1))
                      /\ IsNumber(SubSeq(s, k + 1, Len(s)))}

\* int[.digits][/int[.digits]]
MatchesForm(s) == IsNumber(s) \/ Cuts(s) # {}

\* The number is zero: it has no digit but 0.
IsZeroNumber(chars) == \A i \in DOMAIN chars : chars[i] \in {"0", "."}

\* The string is a/b with b zero.
DividesByZero(s) == \E k \in Cuts(s) : IsZeroNumber(SubSeq(s, k + 1, Len(s)))

\* C18: a zero denominator is rejected with an error: FractionalNumber(n, 0)
\* fails for every n, and so does the string a/b whose b is zero.
C18_ZeroDenominatorRejected ==
    /\ (output # <<>> /\ input.op = "new" /\ input.d = 0) => Rejected(output)
    /\ (output # <<>> /\ input.op = "parse" /\ DividesByZero(input.s)) => Rejected(output)

\* C19: the fraction string of FractionalNumber(n, d), d not zero, read back
\* gives FractionalNumber(n, d), for negative n and d too.
C19_FractionStringReadBack ==
    (output # <<>> /\ input.op = "format") =>
        output = Value(FractionalNumber(input.n, input.d))

RECURSIVE NaturalOf(_)
\* The number the digits of chars write, other characters left out.
NaturalOf(chars) ==
    IF chars = <<>> THEN 0
    ELSE IF IsDigit(chars[Len(chars)])
    THEN NaturalOf(SubSeq(chars, 1, Len(chars) - 1)) * 10 + DigitValue(chars[Len(chars)])
    ELSE NaturalOf(SubSeq(chars, 1, Len(chars) - 1))

RECURSIVE ScaleOf(_)
\* 10 to the number of digits after the ".", 1 without one.
ScaleOf(chars) ==
    IF chars = <<>> \/ \A i \in DOMAIN chars : chars[i] # "." THEN 1
    ELSE IF chars[Len(chars)] = "." THEN 1
    ELSE 10 * ScaleOf(SubSeq(chars, 1, Len(chars) - 1))

\* f is the quotient of the numbers a and b written as int[.digits].
IsQuotientOf(f, a, b) ==
    f.numerator * ScaleOf(a) * NaturalOf(b) = NaturalOf(a) * ScaleOf(b) * f.denominator

\* The string was read without error as the normal form of a / b.
ParsedAs(result, a, b) ==
    result.error = "" /\ NormalForm(result.value) /\ IsQuotientOf(result.value, a, b)

\* C20 as stated: the string constructor succeeds exactly on the strings
\* int[.digits][/int[.digits]] (a zero divisor aside), and fails on every
\* other string.
C20_ParsesExactlyTheForm ==
    (output # <<>> /\ input.op = "parse") =>
        /\ output.error = "" => MatchesForm(input.s)
        /\ (MatchesForm(input.s) /\ ~DividesByZero(input.s)) => output.error = ""

\* C20: a string int[.digits] is read as its value and a string
\* int[.digits]/int[.digits] as the quotient, or fails with "Division by
\* zero" when the divisor is zero; a string without a digit fails; other
\* strings are evaluated as expressions, unknown characters left out:
\* "1a" is 1, "1+2" is 3 and "(3)" is 3.
C20_FormIsParsedAsItsValue ==
    (output # <<>> /\ input.op = "parse") =>
        /\ IsNumber(input.s) => ParsedAs(output, input.s, <<"1">>)
        /\ \A k \in Cuts(input.s) :
              LET a == SubSeq(input.s, 1, k - 1)
                  b == SubSeq(input.s, k + 1, Len(input.s))
              IN  IF IsZeroNumber(b) THEN output = Thrown("Division by zero")
                  ELSE ParsedAs(output, a, b)
        /\ (\A i \in DOMAIN input.s : ~IsDigit(input.s[i])) => Rejected(output)
        /\ input.s = <<"1", "a">> => output = Value(FractionalNumber(1, 1))
        /\ input.s = <<"1", "+", "2">> => output = Value(FractionalNumber(3, 1))
        /\ input.s = <<"(", "3", ")">> => output = Value(FractionalNumber(3, 1))

\* A quotient of a decimal number was read, and is no whole number.
C20_DecimalQuotientParsed ==
    /\ output # <<>> /\ input.op = "parse"
    /\ Cuts(input.s) # {}
    /\ \E i \in DOMAIN input.s : input.s[i] = "."
    /\ output.error = "" /\ output.value.denominator > 1

\* The links that have pin q as one of their ends.
LinksOf(app, q) == {l \in DOMAIN app.links : app.links[l].start = q \/ app.links[l].end = q}

\* Pin q is a pin of the graph: it is in the pin list of its node.
PinInGraph(app, q) ==
    /\ q \in DOMAIN app.pins
    /\ app.pins[q].node \in DOMAIN app.nodes
    /\ q \in SeqToSet(NodeOf(app, q).ins) \cup SeqToSet(NodeOf(app, q).outs)

\* C21: each pin is an end of at most one link, its link field is set
\* exactly when there is such a link and then names it, every link goes
\* from an Output pin to an Input pin of another node, and no link names
\* a pin of a deleted node or a removed pin.
C21_LinksWellFormed ==
    /\ \A q \in DOMAIN pins :
          /\ Cardinality(LinksOf(App, q)) <= 1
          /\ pins[q].link # NoLink <=> LinksOf(App, q) # {}
          /\ pins[q].link # NoLink => pins[q].link \in LinksOf(App, q)
    /\ \A l \in DOMAIN links :
          /\ PinInGraph(App, links[l].start)
          /\ PinInGraph(App, links[l].end)
          /\ pins[links[l].start].direction = "Output"
          /\ pins[links[l].end].direction = "Input"
          /\ pins[links[l].start].node # pins[links[l].end].node

\* A node with a linked pin was deleted while another link stays.
C21_LinkedNodeDeleted ==
    /\ history # <<>>
    /\ LastCmd.op = "DeleteNode"
    /\ \E q \in DOMAIN before.pins :
          before.pins[q].node = LastCmd.a /\ before.pins[q].link # NoLink
    /\ links # <<>>

\* Graph b has the nodes, pins and links of graph a, with the same ends,
\* the same link for every pin and the same locks.
SameGraph(a, b) ==
    /\ DOMAIN a.nodes = DOMAIN b.nodes
    /\ DOMAIN a.pins = DOMAIN b.pins
    /\ DOMAIN a.links = DOMAIN b.links
    /\ a.next_id = b.next_id
    /\ \A n \in DOMAIN a.nodes :
          a.nodes[n].ins = b.nodes[n].ins /\ a.nodes[n].outs = b.nodes[n].outs
    /\ \A l \in DOMAIN a.links :
          a.links[l].start = b.links[l].start /\ a.links[l].end = b.links[l].end
    /\ \A q \in DOMAIN a.pins :
          /\ a.pins[q].link = b.pins[q].link
          /\ a.pins[q].locked = b.pins[q].locked
          /\ a.pins[q].node = b.pins[q].node
          /\ a.pins[q].direction = b.pins[q].direction

\* The pins a call gave another rate.
ChangedPins(solve) ==
    {q \in DOMAIN solve.pre.pins :
        solve.pre.pins[q].current_rate # solve.post.pins[q].current_rate}

\* C22: a call of UpdateNodesRate, successful or not, leaves the nodes,
\* the pins, the links, the link of every pin and the lock of every pin as
\* they were, and a successful call changes the rate of pins of its relevant
\* set only: a Sink input that is not reached keeps its rate when another
\* input of the Sink is edited.
C22_SolveKeepsGraph ==
    \A s \in Calls :
        /\ SameGraph(s.pre, s.post)
        /\ Succeeded(s) => ChangedPins(s) \subseteq s.report.relevant_pins

\* An input of a Sink was given a rate while another input of that Sink,
\* not reached by the call, has a rate that is not zero.
C22_SinkSiblingKept ==
    \E s \in Calls :
        /\ Succeeded(s)
        /\ KindOf(s.pre, s.pin) = "Sink"
        /\ s.pin \in ChangedPins(s)
        /\ \E q \in SeqToSet(NodeOf(s.pre, s.pin).ins) \ s.report.relevant_pins :
              s.post.pins[q].current_rate # Zero

\* The Merger and CustomSplitter nodes with a pin that has a variable in
\* the call.
ProcessedOrganizers(solve) ==
    {n \in DOMAIN solve.pre.nodes :
        /\ solve.pre.nodes[n].kind \in {"Merger", "CustomSplitter"}
        /\ \E q \in SeqToSet(solve.pre.nodes[n].ins \o solve.pre.nodes[n].outs) :
              q \in DOMAIN solve.report.associated_variable_index}

\* Some multi pin of the node is locked at a rate that is not zero.
LockedAtRate(app, n) ==
    \E q \in SeqToSet(MultiPin(app.nodes[n])) :
        app.pins[q].locked /\ app.pins[q].current_rate # Zero

IsBalanced(app, n) ==
    app.pins[SinglePin(app.nodes[n])].current_rate = SumOfRates(app, MultiPin(app.nodes[n]))

\* C28: after a successful call, every Merger and CustomSplitter with a pin
\* processed by the equation pass is balanced: its single pin carries the
\* sum of the rates of all its multi pins.
C28_ProcessedOrganizersBalanced ==
    \A s \in Calls :
        Succeeded(s) => \A n \in ProcessedOrganizers(s) : IsBalanced(s.post, n)

NoRepeat(s) == \A i \in DOMAIN s : \A j \in DOMAIN s : s[i] = s[j] => i = j

\* C24: in the first pass of a call every pin is pushed onto the queue of
\* pins to propagate at most once, whatever the graph and its locks.
C24_PinsPushedOnce ==
    \A s \in Calls : NoRepeat(s.report.pushed)

\* The kind of the mirror of a node.
MirrorKind(kind) ==
    CASE kind = "Merger" -> "CustomSplitter"
      [] kind = "CustomSplitter" -> "Merger"
      [] OTHER -> kind

\* The mirror of a graph: every link reversed, every pin direction swapped,
\* Merger and CustomSplitter exchanged, the same ids, rates and locks.
Mirror(app) ==
    [app EXCEPT
        !.nodes = Eager([n \in DOMAIN @ |->
                    [@[n] EXCEPT !.kind = MirrorKind(@),
                                 !.ins = app.nodes[n].outs,
                                 !.outs = app.nodes[n].ins]]),
        !.pins = Eager([q \in DOMAIN @ |->
                    [@[q] EXCEPT !.direction = IF @ = "Input" THEN "Output" ELSE "Input"]]),
        !.links = Eager([l \in DOMAIN @ |->
                    [@[l] EXCEPT !.start = app.links[l].end, !.end = app.links[l].start]])]

\* A graph that has a mirror: Merger, CustomSplitter and Craft nodes only.
HasMirror(app) ==
    \A n \in DOMAIN app.nodes : app.nodes[n].kind \in {"Merger", "CustomSplitter", "Craft"}

\* The call made on the mirror of the graph.
Mirrored(solve) == UpdateNodesRate(Mirror(solve.pre), solve.pin, solve.value)

\* Two calls with the same outcome, the same relevant pins and, when they
\* succeed, the same rate for every pin.
SameSolve(solve, other) ==
    /\ other.outcome = solve.outcome
    /\ other.report.relevant_pins = solve.report.relevant_pins
    /\ Succeeded(solve) => SamePinRates(solve.post, other.post)

\* C25: a call on the mirror of a graph, with the same constraint pin and
\* value, has the outcome and the relevant pins of the call on the graph
\* and gives every pin the same rate.
C25_MergerMirrorsCustomSplitter ==
    \A s \in Calls : HasMirror(s.pre) => SameSolve(s, Mirrored(s))

\* One of the two ends of link l has another rate after the call.
EndChanged(solve, l) ==
    \/ solve.pre.links[l].start \in ChangedPins(solve)
    \/ solve.pre.links[l].end \in ChangedPins(solve)

\* The flow of a link first gone through from pin p.
FlowFrom(app, p) == IF app.pins[p].direction = "Output" THEN "Forward" ELSE "Backward"

\* C26: after a successful call a link carries a flow exactly when the
\* equation pass went through it and one of its ends has a new rate; the
\* flow is Forward when the link was first gone through from its output pin
\* and Backward from its input pin (the link of the constraint pin is first
\* gone through from the constraint pin); every other link has none, and a
\* flow is cleared by the next rendering of the links and by the start of
\* the next call.
C26_FlowMarksChangedLinks ==
    /\ \A s \in Calls :
          Succeeded(s) =>
              /\ \A l \in DOMAIN s.post.links :
                    s.post.links[l].flow =
                        IF l \in s.report.processed_links /\ EndChanged(s, l)
                        THEN s.report.passes_flow[l]
                        ELSE "none"
              /\ \A l \in s.report.processed_links :
                    s.report.passes_flow[l] \in {"Forward", "Backward"}
              /\ s.pre.pins[s.pin].link # NoLink =>
                    s.report.passes_flow[s.pre.pins[s.pin].link] = FlowFrom(s.pre, s.pin)
    /\ (history # <<>> /\ LastCmd.op = "Frame") =>
          \A l \in DOMAIN links : links[l].flow = "none"

\* A successful call from a linked input pin left a Backward flow on the
\* link of that pin and went through another link that has none.
C26_BackwardFlowKept ==
    \E s \in Calls :
        /\ Succeeded(s)
        /\ s.pre.pins[s.pin].link # NoLink
        /\ s.post.links[s.pre.pins[s.pin].link].flow = "Backward"
        /\ \E l \in s.report.processed_links : s.post.links[l].flow = "none"

\* The exact result of an operator on two numbers, in lowest terms.
Exact(op, lhs, rhs) ==
    Simplify(Unreduced(op, lhs, rhs)[1], Unreduced(op, lhs, rhs)[2])

\* C27: with the members held in w-bit signed integers, an operator on two
\* numbers in normal form (the divisor not zero) returns the exact result in
\* lowest terms whenever the numerator and the denominator of that result
\* fit in w bits, also when the products computed before the simplification
\* do not.
C27_ExactWhenRepresentable ==
    (/\ output # <<>>
     /\ input.op = "fixed"
     /\ ~(input.operator = "/" /\ input.rhs.numerator = 0)
     /\ Representable(Exact(input.operator, input.lhs, input.rhs).numerator)
     /\ Representable(Exact(input.operator, input.lhs, input.rhs).denominator))
        => output = Value(Exact(input.operator, input.lhs, input.rhs))

\* The last command was a link dragged between two pins that App::DragLink
\* accepts, so that CreateLink(start, end, true) ran.
LinkDragged ==
    /\ history # <<>>
    /\ LastCmd.op = "DragLink"
    /\ LastCmd.a \in DOMAIN before.pins
    /\ LastCmd.b \in DOMAIN before.pins
    /\ DragLinkAccepted(before, LastCmd.a, LastCmd.b)

\* The link of the last CreateLink is still in the graph.
LinkRemains == before.next_id \in DOMAIN links

\* C29: after CreateLink(start, end, true) the new link is in the graph
\* exactly when the two pins had equal rates or the solve it started
\* succeeded; a link that remains joins two pins of equal rate; when the
\* link was removed, both pins have no link and the rate of both pins, the
\* input pin of a Sink included, is the one before the call.
C29_FailedLinkLeavesPins ==
    LinkDragged =>
        /\ LinkRemains <=>
              \/ before.pins[LastCmd.a].current_rate = before.pins[LastCmd.b].current_rate
              \/ solves # <<>> /\ Succeeded(solves[1])
        /\ LinkRemains =>
              pins[LastCmd.a].current_rate = pins[LastCmd.b].current_rate
        /\ ~LinkRemains =>
              \A p \in {LastCmd.a, LastCmd.b} :
                  /\ pins[p].link = NoLink
                  /\ pins[p].current_rate = before.pins[p].current_rate

\* The last command called Pin::SetLocked.
LockingCalls == IF history # <<>> /\ output # <<>> THEN output ELSE <<>>

\* C30: Pin::SetLocked returns on every graph, the graphs whose links form
\* a cycle through Craft, GameSplitter, Merger and CustomSplitter nodes
\* included: every call made from one call of the user carries the same
\* value, the flag of a pin changes at most once, and every pin reached
\* holds that value when the call returns.
C30_SetLockedChangesOnce ==
    /\ \A i, j \in DOMAIN LockingCalls : LockingCalls[i].value = LockingCalls[j].value
    /\ \A i, j \in DOMAIN LockingCalls :
          (/\ LockingCalls[i].changed
           /\ LockingCalls[j].changed
           /\ LockingCalls[i].pin = LockingCalls[j].pin) => i = j
    /\ \A i \in DOMAIN LockingCalls :
          /\ LockingCalls[i].pin \in DOMAIN pins
          /\ pins[LockingCalls[i].pin].locked = LockingCalls[i].value

\* Link l is on a cycle of links: the node at its end reaches, through the
\* links of the graph, the node at its start.
NodesAfter(n) ==
    {pins[links[l].end].node : l \in {k \in DOMAIN links : pins[links[k].start].node = n}}
RECURSIVE ReachedFrom(_, _)
ReachedFrom(seen, k) ==
    IF k = 0 THEN seen
    ELSE ReachedFrom(seen \cup UNION {NodesAfter(n) : n \in seen}, k - 1)
OnCycle(l) ==
    pins[links[l].start].node \in ReachedFrom({pins[links[l].end].node}, Cardinality(DOMAIN nodes))

\* A right click on a pin whose calls went round a cycle of links: at least
\* four calls were made and the flags of the two ends of a link of the
\* cycle changed.
C30_LockedRoundACycle ==
    /\ LockingCalls # <<>>
    /\ LastCmd.op = "ToggleLock"
    /\ \E l \in DOMAIN links :
          /\ OnCycle(l)
          /\ \E i, j \in DOMAIN LockingCalls :
                /\ LockingCalls[i].changed /\ LockingCalls[i].pin = links[l].start
                /\ LockingCalls[j].changed /\ LockingCalls[j].pin = links[l].end
    /\ Len(LockingCalls) >= 4

====
